---- MODULE Spec2Model ----
(***************************************************************************)
(* Verification model of the SMC engine: the finite-field secret-sharing   *)
(* algebra (secret_sharing.py), the trusted parameter generator (ttp.py),  *)
(* the Beaver multiplication protocol (secret_sharing.py, testutils.py)    *)
(* and the per-party evaluator (smc_party.py).                             *)
(*                                                                         *)
(* Python lists are 0-based, TLA+ sequences 1-based: the element at Python *)
(* position i is the element at position i + 1 here.                       *)
(***************************************************************************)
EXTENDS Integers, Sequences, FiniteSets, TLC

VARIABLES
    alg,                \* test_secret_sharing.py: locals of one algebra test
    participant_ids,    \* TrustedParamGenerator.participant_ids
    generated_shares,   \* TrustedParamGenerator.generated_shares
    calls,              \* retrieve_share: the calls in progress, per caller
    ttp_ret,            \* retrieve_share: outcome of the call that ended last
    handed,             \* the shares first returned to each (client, op_id)
    generations,        \* number of triplets generated so far, per op_id
    bv,                 \* test_secret_sharing_beaver_multiplication: locals
    published_shares,   \* TestBeaverServer.published_shares
    protocol_spec,      \* the ProtocolSpec and the value_dict of every party
    party,              \* SMCParty.run: position and locals of every party
    private_messages,   \* transport: messages sent to one participant
    public_messages     \* transport: messages published by a participant

algVars == <<alg>>
ttpVars == <<participant_ids, generated_shares, calls, ttp_ret, handed, generations>>
bvVars == <<bv, published_shares>>
partyVars == <<protocol_spec, party, private_messages, public_messages>>
vars == <<algVars, ttpVars, bvVars, partyVars>>

\* the parts of the state a specification does not use
IdleAlg == alg = <<>>
IdleTTP ==
    /\ participant_ids = <<>>
    /\ generated_shares = <<>>
    /\ calls = <<>>
    /\ ttp_ret = <<>>
    /\ handed = <<>>
    /\ generations = <<>>
IdleBeaver == bv = <<>> /\ published_shares = <<>>
IdleParty ==
    /\ protocol_spec = <<>>
    /\ party = <<>>
    /\ private_messages = <<>>
    /\ public_messages = <<>>

----------------------------------------------------------------------------
(* Bounds and samples                                                      *)

\* secret_sharing.py:9
default_q == 10337

\* A sample of Z_q that the bounded sets below are cut from: both ends of
\* the range, values whose sums and products wrap around q, small values.
ZqSample == <<1, 10336, 0, 5169, 2, 7001, 3, 10335>>

\* number of values of ZqSample that rand_Zq may return
NumRand == 2
\* number of values of ZqSample used as plaintext inputs (secrets, scalars)
NumSecrets == 3
\* largest number of shares in the algebra tests
MaxN == 3

SecretVals == { ZqSample[j] : j \in 1..NumSecrets }

----------------------------------------------------------------------------
(* secret_sharing.py: field elements                                       *)

\* rand_Zq(): the values one call may return
rand_Zq == { ZqSample[j] : j \in 1..NumRand }

\* a raised exception, as the value of the expression that raised it
Raise(what) == [kind |-> "Error", error |-> what]
\* F(x), with x computed once however often F refers to it
Once(F(_), x) == CHOOSE y \in { F(v) : v \in {x} } : TRUE

IsError(e) == e.kind = "Error"
IsScalar(e) == e.kind = "Scalar"
IsShare(e) == e.kind = "Share"

\* ScalarElement(value): FieldElement.__init__ reduces the value
ScalarElement(value) == [kind |-> "Scalar", value |-> value % default_q]

Share_NoReduce(index, value) == [kind |-> "Share", index |-> index, value |-> value]

\* Share(index, value): FieldElement.__init__ reduces the value
Share(index, value) == [kind |-> "Share", index |-> index, value |-> value % default_q]

reorder_elements(left, right) ==
    IF IsScalar(left) THEN <<right, left>> ELSE <<left, right>>

add_AllIndices(self, other) ==
    IF IsError(self) THEN self
    ELSE IF IsError(other) THEN other
    ELSE IF IsScalar(self) /\ IsScalar(other)
        THEN ScalarElement(self.value + other.value)
    ELSE IF IsScalar(self) \/ IsScalar(other)
        THEN LET p == reorder_elements(self, other)
             IN  Share(p[1].index, p[1].value + p[2].value)
    ELSE IF self.index = other.index
        THEN Share(self.index, self.value + other.value)
        ELSE Raise("AssertionError")

add_KeepLeft(self, other) ==
    IF IsError(self) THEN self
    ELSE IF IsError(other) THEN other
    ELSE IF IsScalar(self) /\ IsScalar(other)
        THEN ScalarElement(self.value + other.value)
    ELSE IF IsScalar(self) \/ IsScalar(other)
        THEN LET p == reorder_elements(self, other)
             IN  IF p[1].index = 0
                    THEN Share(p[1].index, p[1].value + p[2].value)
                    ELSE Share(p[1].index, p[1].value)
    ELSE IF self.index = other.index
        THEN Share(self.index, self.value)
        ELSE Raise("AssertionError")

add_NoIndexCheck(self, other) ==
    IF IsError(self) THEN self
    ELSE IF IsError(other) THEN other
    ELSE IF IsScalar(self) /\ IsScalar(other)
        THEN ScalarElement(self.value + other.value)
    ELSE IF IsScalar(self) \/ IsScalar(other)
        THEN LET p == reorder_elements(self, other)
             IN  IF p[1].index = 0
                    THEN Share(p[1].index, p[1].value + p[2].value)
                    ELSE Share(p[1].index, p[1].value)
    ELSE Share(self.index, self.value + other.value)

\* FieldElement.__add__
add(self, other) ==
    IF IsError(self) THEN self
    ELSE IF IsError(other) THEN other
    ELSE IF IsScalar(self) /\ IsScalar(other)
        THEN ScalarElement(self.value + other.value)
    ELSE IF IsScalar(self) \/ IsScalar(other)
        THEN LET p == reorder_elements(self, other)
                 share == p[1]
                 scalar == p[2]
             IN  IF share.index = 0
                    THEN Share(share.index, share.value + scalar.value)
                    ELSE Share(share.index, share.value)
    ELSE IF self.index = other.index
        THEN Share(self.index, self.value + other.value)
        ELSE Raise("AssertionError")

sub_Reordered(self, other) ==
    IF IsError(self) THEN self
    ELSE IF IsError(other) THEN other
    ELSE IF IsScalar(self) /\ IsScalar(other)
        THEN ScalarElement(self.value - other.value)
    ELSE IF IsShare(self) /\ IsScalar(other)
        THEN add(ScalarElement(0 - other.value), self)
    ELSE IF IsScalar(self) /\ IsShare(other)
        THEN add(ScalarElement(self.value), Share(other.index, 0 - other.value))
    ELSE IF self.index = other.index
        THEN Share(self.index, self.value - other.value)
        ELSE Raise("AssertionError")

sub_ScalarAnyIndex(self, other) ==
    IF IsError(self) THEN self
    ELSE IF IsError(other) THEN other
    ELSE IF IsScalar(self) /\ IsScalar(other)
        THEN ScalarElement(self.value - other.value)
    ELSE IF IsShare(self) /\ IsScalar(other)
        THEN Share(self.index, self.value - other.value)
    ELSE IF IsScalar(self) /\ IsShare(other)
        THEN Raise("RuntimeError: Implicit scalar - share not defined!")
    ELSE IF self.index = other.index
        THEN Share(self.index, self.value - other.value)
        ELSE Raise("AssertionError")

sub_ScalarLeftAllowed(self, other) ==
    IF IsError(self) THEN self
    ELSE IF IsError(other) THEN other
    ELSE IF IsScalar(self) /\ IsScalar(other)
        THEN ScalarElement(self.value - other.value)
    ELSE IF IsShare(self) /\ IsScalar(other)
        THEN add(ScalarElement(0 - other.value), self)
    ELSE IF IsScalar(self) /\ IsShare(other)
        THEN Share(other.index, self.value - other.value)
    ELSE IF self.index = other.index
        THEN Share(self.index, self.value - other.value)
        ELSE Raise("AssertionError")

\* FieldElement.__sub__
sub(self, other) ==
    IF IsError(self) THEN self
    ELSE IF IsError(other) THEN other
    ELSE IF IsScalar(self) /\ IsScalar(other)
        THEN ScalarElement(self.value - other.value)
    ELSE IF IsShare(self) /\ IsScalar(other)
        THEN add(ScalarElement(0 - other.value), self)
    ELSE IF IsScalar(self) /\ IsShare(other)
        THEN Raise("RuntimeError: Implicit scalar - share not defined!")
    ELSE IF self.index = other.index
        THEN Share(self.index, self.value - other.value)
        ELSE Raise("AssertionError")

mul_DropIndex(self, other) ==
    IF IsError(self) THEN self
    ELSE IF IsError(other) THEN other
    ELSE IF IsScalar(self) /\ IsScalar(other)
        THEN ScalarElement(self.value * other.value)
    ELSE IF IsScalar(self) \/ IsScalar(other)
        THEN LET p == reorder_elements(self, other)
             IN  Share(0, p[2].value * p[1].value)
    ELSE IF self.index = other.index
        THEN Raise("RuntimeError: Implicit share * share not allowed!")
        ELSE Raise("AssertionError")

mul_SharesMultiply(self, other) ==
    IF IsError(self) THEN self
    ELSE IF IsError(other) THEN other
    ELSE IF IsScalar(self) /\ IsScalar(other)
        THEN ScalarElement(self.value * other.value)
    ELSE IF IsScalar(self) \/ IsScalar(other)
        THEN LET p == reorder_elements(self, other)
             IN  Share(p[1].index, p[2].value * p[1].value)
    ELSE IF self.index = other.index
        THEN Share(self.index, self.value * other.value)
        ELSE Raise("AssertionError")

mul_NextIndex(self, other) ==
    IF IsError(self) THEN self
    ELSE IF IsError(other) THEN other
    ELSE IF IsScalar(self) /\ IsScalar(other)
        THEN ScalarElement(self.value * other.value)
    ELSE IF IsScalar(self) \/ IsScalar(other)
        THEN LET p == reorder_elements(self, other)
             IN  Share(p[1].index + 1, p[2].value * p[1].value)
    ELSE IF self.index = other.index
        THEN Raise("RuntimeError: Implicit share * share not allowed!")
        ELSE Raise("AssertionError")

\* FieldElement.__mul__
mul(self, other) ==
    IF IsError(self) THEN self
    ELSE IF IsError(other) THEN other
    ELSE IF IsScalar(self) /\ IsScalar(other)
        THEN ScalarElement(self.value * other.value)
    ELSE IF IsScalar(self) \/ IsScalar(other)
        THEN LET p == reorder_elements(self, other)
                 share == p[1]
                 scalar == p[2]
             IN  Share(share.index, scalar.value * share.value)
    ELSE IF self.index = other.index
        THEN Raise("RuntimeError: Implicit share * share not allowed!")
        ELSE Raise("AssertionError")

RECURSIVE SumSeq(_)
\* Python's sum() over a list of integers
SumSeq(s) == IF s = <<>> THEN 0 ELSE Head(s) + SumSeq(Tail(s))

\* the lists of num_shares - 1 values that the rand_Zq() calls of one
\* share_secret(secret, num_shares) may return (range(k) is empty for k <= 0)
RandDraws(num_shares) ==
    [1..(IF num_shares > 1 THEN num_shares - 1 ELSE 0) -> rand_Zq]

share_secret_NoBalance(secret, draws) ==
    LET share_values == <<secret % default_q>> \o draws
    IN  [j \in 1..Len(share_values) |-> Share(j - 1, share_values[j])]

share_secret_LeakLast(secret, draws) ==
    LET n == Len(draws)
        kept == SubSeq(draws, 1, n - 1)
        share_values == <<(0 - SumSeq(kept)) % default_q>> \o kept \o <<secret>>
    IN  [j \in 1..Len(share_values) |-> Share(j - 1, share_values[j])]

\* share_secret(secret, num_shares), given the values its rand_Zq() calls drew
share_secret(secret, draws) ==
    LET share_values == <<(secret - SumSeq(draws)) % default_q>> \o draws
    IN  [j \in 1..Len(share_values) |-> Share(j - 1, share_values[j])]

reconstruct_secret_DropLast(shares) ==
    SumSeq([j \in 1..(Len(shares) - 1) |-> shares[j].value]) % default_q

\* reconstruct_secret(shares)
reconstruct_secret(shares) ==
    SumSeq([j \in 1..Len(shares) |-> shares[j].value]) % default_q

----------------------------------------------------------------------------
(* ttp.py: TrustedParamGenerator                                           *)

\* the client ids and operation ids the calls are drawn from
ClientIds == {"P0", "P1"}
OpIds == {"op1", "op2"}
\* largest number of add_participant calls
MaxRegs == 2

\* Python's None, and a call's two ways to end: a returned value or an
\* exception (Raise above)
None == [kind |-> "None"]
Return(value) == [kind |-> "Return", value |-> value]
Returned(result) == result.kind = "Return"
Raised(result) == result.kind = "Error"

\* Python's "x in list"
InList(x, list) == \E j \in 1..Len(list) : list[j] = x

\* Python's list.index(x): the 0-based position of the first occurrence
ListIndex(list, x) ==
    (CHOOSE j \in 1..Len(list) :
        list[j] = x /\ \A k \in 1..(j - 1) : list[k] # x) - 1

\* Python's "d[key] = value" on a dict
DictPut(d, key, value) ==
    LET put(a) == [k \in DOMAIN a[1] \cup {a[2]} |->
                      IF k = a[2] THEN a[3] ELSE a[1][k]]
    IN  Once(put, <<d, key, value>>)

new_triplet_Sum(s_a, s_b, da, db, dc) ==
    <<share_secret(s_a, da), share_secret(s_b, db),
      share_secret((s_a + s_b) % default_q, dc)>>

\* retrieve_share, lines 47-55: the share vectors of a new triplet, given
\* the values drawn for a and b and by the three share_secret calls
new_triplet(s_a, s_b, da, db, dc) ==
    LET s_c == (s_a * s_b) % default_q
    IN  <<share_secret(s_a, da), share_secret(s_b, db), share_secret(s_c, dc)>>

\* every outcome of lines 47-55 with num participants registered
NewTriplets(num) ==
    { new_triplet(s_a, s_b, da, db, dc) :
        s_a \in rand_Zq, s_b \in rand_Zq,
        da \in RandDraws(num), db \in RandDraws(num), dc \in RandDraws(num) }

cache_miss_Always(op_id, cache) == TRUE

\* retrieve_share, line 46: "op_id not in self.generated_shares"
cache_miss(op_id, cache) == op_id \notin DOMAIN cache

client_known_Always(client_id, ids) == TRUE

\* retrieve_share, line 44: "client_id in self.participant_ids"
client_known(client_id, ids) == InList(client_id, ids)

pick_shares_First(cache, ids, client_id, op_id) ==
    LET shares == cache[op_id]
    IN  Return(<<shares[1][1], shares[2][1], shares[3][1]>>)

pick_shares_Wrapped(cache, ids, client_id, op_id) ==
    LET shares == cache[op_id]
    IN  IF ~InList(client_id, ids)
            THEN Raise("ValueError")
        ELSE LET i == ListIndex(ids, client_id) % Len(shares[1])
             IN  Return(<<shares[1][i + 1], shares[2][i + 1],
                          shares[3][i + 1]>>)

\* retrieve_share, lines 58-62: the value returned from the cache
pick_shares(cache, ids, client_id, op_id) ==
    LET shares == cache[op_id]
    IN  IF ~InList(client_id, ids)
            THEN Raise("ValueError")
        ELSE LET i == ListIndex(ids, client_id)
             IN  IF i >= Len(shares[1])
                    THEN Raise("IndexError")
                    ELSE Return(<<shares[1][i + 1], shares[2][i + 1],
                                  shares[3][i + 1]>>)

\* the record of a call that ended: who called, for what, what came back
\* (three Shares or the exception raised) and whether this (client, op_id)
\* had been handed shares before; tick tells two successive calls with the
\* same outcome apart
Outcome(client_id, op_id, result) ==
    [client |-> client_id, op |-> op_id, result |-> result,
     again |-> handed[<<client_id, op_id>>] # None,
     tick |-> 1 - ttp_ret.tick]

FirstHanded(client_id, op_id, result) ==
    IF Returned(result) /\ handed[<<client_id, op_id>>] = None
        THEN [handed EXCEPT ![<<client_id, op_id>>] = result]
        ELSE handed

\* TrustedParamGenerator(), observed for the given clients and op ids
InitTTP(clients, ops) ==
    /\ participant_ids = <<>>
    /\ generated_shares = <<>>
    /\ calls = [c \in clients |-> [pc |-> "idle"]]
    /\ ttp_ret = [client |-> "", op |-> "", result |-> None,
                  again |-> FALSE, tick |-> 0]
    /\ handed = [k \in clients \X ops |-> None]
    /\ generations = [o \in ops |-> 0]

add_participant_Unique(participant_id) ==
    /\ ~InList(participant_id, participant_ids)
    /\ participant_ids' = Append(participant_ids, participant_id)
    /\ UNCHANGED <<generated_shares, calls, ttp_ret, handed, generations>>

\* add_participant(participant_id)
add_participant(participant_id) ==
    /\ participant_ids' = Append(participant_ids, participant_id)
    /\ UNCHANGED <<generated_shares, calls, ttp_ret, handed, generations>>

\* retrieve_share(client_id, op_id), run from call to return with no other
\* call in between
retrieve_share(client_id, op_id) ==
    /\ \A c \in DOMAIN calls : calls[c].pc = "idle"
    /\ IF ~client_known(client_id, participant_ids)
       THEN /\ ttp_ret' = Outcome(client_id, op_id, Raise("AssertionError"))
            /\ UNCHANGED <<generated_shares, handed, generations>>
       ELSE \E new \in (IF cache_miss(op_id, generated_shares)
                           THEN NewTriplets(Len(participant_ids))
                           ELSE {<<>>}) :
              LET cache == IF new # <<>>
                              THEN DictPut(generated_shares, op_id, new)
                              ELSE generated_shares
                  result == pick_shares(cache, participant_ids, client_id, op_id)
              IN  /\ generated_shares' = cache
                  /\ generations' =
                        IF new # <<>>
                           THEN [generations EXCEPT ![op_id] = @ + 1]
                           ELSE generations
                  /\ ttp_ret' = Outcome(client_id, op_id, result)
                  /\ handed' = FirstHanded(client_id, op_id, result)
    /\ UNCHANGED <<participant_ids, calls>>

\* a registration, while fewer than MaxRegs were made
Register ==
    /\ Len(participant_ids) < MaxRegs
    /\ \E c \in ClientIds : add_participant(c)
    /\ UNCHANGED <<algVars, bvVars, partyVars>>

\* a call of retrieve_share that runs alone
Retrieve ==
    /\ \E c \in ClientIds, o \in OpIds : retrieve_share(c, o)
    /\ UNCHANGED <<algVars, bvVars, partyVars>>

NextTTP == Register \/ Retrieve

InitSpecTTP == InitTTP(ClientIds, OpIds) /\ IdleAlg /\ IdleBeaver /\ IdleParty

\* the generator called by one caller at a time (test_ttp.py)
SpecTTP == InitSpecTTP /\ [][NextTTP]_vars

(* retrieve_share called by several callers at once: a call is cut at the  *)
(* membership tests (lines 44-46), the generation (lines 47-55), the cache *)
(* write (line 56) and the read that returns (lines 58-62).                *)

\* the operation ids of the concurrent calls
ConcOps == {"op1"}

\* lines 44-46
retrieve_share_test(client_id, op_id) ==
    /\ calls[client_id].pc = "idle"
    /\ IF ~client_known(client_id, participant_ids)
       THEN /\ ttp_ret' = Outcome(client_id, op_id, Raise("AssertionError"))
            /\ UNCHANGED calls
       ELSE /\ calls' = [calls EXCEPT ![client_id] =
                            [pc |-> IF cache_miss(op_id, generated_shares)
                                       THEN "generate" ELSE "return",
                             op |-> op_id, new |-> <<>>]]
            /\ UNCHANGED ttp_ret
    /\ UNCHANGED <<participant_ids, generated_shares, handed, generations>>

\* lines 47-55
retrieve_share_generate(client_id) ==
    /\ client_id \in DOMAIN calls
    /\ calls[client_id].pc = "generate"
    /\ \E new \in NewTriplets(Len(participant_ids)) :
          calls' = [calls EXCEPT ![client_id].pc = "write",
                                 ![client_id].new = new]
    /\ generations' = [generations EXCEPT ![calls[client_id].op] = @ + 1]
    /\ UNCHANGED <<participant_ids, generated_shares, ttp_ret, handed>>
    /\ UNCHANGED <<algVars, bvVars, partyVars>>

\* line 56
retrieve_share_write(client_id) ==
    /\ client_id \in DOMAIN calls
    /\ calls[client_id].pc = "write"
    /\ generated_shares' =
          DictPut(generated_shares, calls[client_id].op, calls[client_id].new)
    /\ calls' = [calls EXCEPT ![client_id].pc = "return",
                              ![client_id].new = <<>>]
    /\ UNCHANGED <<participant_ids, ttp_ret, handed, generations>>
    /\ UNCHANGED <<algVars, bvVars, partyVars>>

\* lines 58-62
retrieve_share_return(client_id) ==
    /\ calls[client_id].pc = "return"
    /\ LET op_id == calls[client_id].op
           result == pick_shares(generated_shares, participant_ids,
                                 client_id, op_id)
       IN  /\ ttp_ret' = Outcome(client_id, op_id, result)
           /\ handed' = FirstHanded(client_id, op_id, result)
    /\ calls' = [calls EXCEPT ![client_id] = [pc |-> "idle"]]
    /\ UNCHANGED <<participant_ids, generated_shares, generations>>

\* a caller enters retrieve_share
ConcCall ==
    /\ \E c \in ClientIds, o \in ConcOps : retrieve_share_test(c, o)
    /\ UNCHANGED <<algVars, bvVars, partyVars>>

\* a caller leaves retrieve_share
ConcReturn ==
    /\ \E c \in ClientIds : retrieve_share_return(c)
    /\ UNCHANGED <<algVars, bvVars, partyVars>>

NextTTPConc ==
    \/ Register
    \/ ConcCall
    \/ \E c \in ClientIds : retrieve_share_generate(c)
    \/ \E c \in ClientIds : retrieve_share_write(c)
    \/ ConcReturn

SpecTTPConc == InitSpecTTP /\ [][NextTTPConc]_vars

----------------------------------------------------------------------------
(* secret_sharing.py: BeaverDistributor.  The three callbacks are the      *)
(* caller's: the operators take what the callbacks returned.               *)

\* retrieve_triplet_shares(participant_index), given the three integers
\* the triplet_retriever returned
retrieve_triplet_shares(participant_index, abc) ==
    <<Share(participant_index, abc[1]), Share(participant_index, abc[2]),
      Share(participant_index, abc[3])>>

execute_start_NoBlind(x, y, abc) ==
    LET triplet == retrieve_triplet_shares(x.index, abc)
    IN  IF ~(x.index = y.index) THEN Raise("AssertionError")
        ELSE Return([X_share |-> x, Y_share |-> y,
                     state |-> <<triplet[3], x, y>>])

\* execute_start(x, y), given the triplet_retriever's answer: the blinded
\* shares to publish and the state to return, or the exception raised
execute_start(x, y, abc) ==
    LET triplet == retrieve_triplet_shares(x.index, abc)
        a == triplet[1]
        b == triplet[2]
        c == triplet[3]
    IN  IF ~(x.index = y.index /\ x.index = a.index /\ a.index = b.index
                /\ b.index = c.index)
            THEN Raise("AssertionError")
        ELSE LET X_share == sub(x, a)
                 Y_share == sub(y, b)
             IN  IF ~(IsShare(X_share) /\ IsShare(Y_share))
                    THEN Raise("AssertionError")
                    ELSE Return([X_share |-> X_share, Y_share |-> Y_share,
                                 state |-> <<c, x, y>>])

\* receive_blinded_values(), given the two lists the blinded_value_retriever
\* returned
receive_blinded_values(X_result_shares, Y_result_shares) ==
    <<ScalarElement(reconstruct_secret(X_result_shares)),
      ScalarElement(reconstruct_secret(Y_result_shares))>>

execute_end_KeepXY(state, X_result_shares, Y_result_shares) ==
    LET c == state[1]
        x == state[2]
        y == state[3]
        XY == receive_blinded_values(X_result_shares, Y_result_shares)
    IN  add(add(c, mul(x, XY[2])), mul(y, XY[1]))

execute_end_SwapXY(state, X_result_shares, Y_result_shares) ==
    LET c == state[1]
        x == state[2]
        y == state[3]
        XY == receive_blinded_values(X_result_shares, Y_result_shares)
    IN  sub(add(add(c, mul(x, XY[1])), mul(y, XY[2])), mul(XY[1], XY[2]))

\* execute_end(state), given the two lists the blinded_value_retriever
\* returned
execute_end(state, X_result_shares, Y_result_shares) ==
    LET c == state[1]
        x == state[2]
        y == state[3]
        result(XY) ==
            LET X == XY[1]
                Y == XY[2]
            IN  sub(add(add(c, mul(x, Y)), mul(y, X)), mul(X, Y))
    IN  Once(result, receive_blinded_values(X_result_shares, Y_result_shares))

----------------------------------------------------------------------------
(* test_secret_sharing.py, testutils.py: one run of the Beaver test, with  *)
(* a TestBeaverServer and N simulated parties in one thread.               *)

\* largest number of simulated parties
MaxBeaverN == 3
\* number of values of ZqSample the two multiplied secrets are drawn from
NumBeaverSecrets == 2

\* participants = [f"P{i}" for i in range(N)]
TestParticipant(i) == <<"P0", "P1", "P2", "P3", "P4">>[i + 1]

\* op_id = "A" and the labels of create_test_beaver_distributor
TestOpId == "A"
TestXLabel == "A-X"
TestYLabel == "A-Y"

InitBeaver ==
    /\ bv \in { [phase |-> "init", s1 |-> a, s2 |-> b, N |-> n,
                 shares1 |-> <<>>, shares2 |-> <<>>,
                 beaver_states |-> [j \in 1..n |-> None],
                 result |-> [j \in 1..n |-> None]] :
                   a \in { ZqSample[j] : j \in 1..NumBeaverSecrets },
                   b \in { ZqSample[j] : j \in 1..NumBeaverSecrets },
                   n \in 2..MaxBeaverN }
    /\ published_shares = <<>>

\* test lines 107-111: register the participants, share both secrets
TestSetup ==
    /\ bv.phase = "init"
    /\ participant_ids' = [j \in 1..bv.N |-> TestParticipant(j - 1)]
    /\ \E d1 \in RandDraws(bv.N), d2 \in RandDraws(bv.N) :
          bv' = [bv EXCEPT !.phase = "run",
                           !.shares1 = share_secret(bv.s1, d1),
                           !.shares2 = share_secret(bv.s2, d2)]
    /\ UNCHANGED <<generated_shares, calls, ttp_ret, handed, generations>>
    /\ UNCHANGED <<published_shares, algVars, partyVars>>

\* TestBeaverServer.publish_share(share, label, client_id, client_index)
publish_share(published, share, label, client_index, num_clients) ==
    LET list == IF label \in DOMAIN published
                   THEN published[label]
                   ELSE [j \in 1..num_clients |-> None]
    IN  DictPut(published, label, [list EXCEPT ![client_index + 1] = share])

\* beaver_dists[i].execute_start(shares1[i], shares2[i]); the triplet
\* retriever is TestBeaverServer.retrieve_triplets, a retrieve_share call
TestStart(i) ==
    /\ bv.phase = "run"
    /\ i < bv.N
    /\ bv.beaver_states[i + 1] = None
    /\ retrieve_share(TestParticipant(i), TestOpId)
    /\ LET got == ttp_ret'.result
           started ==
               IF Raised(got) THEN got
               ELSE execute_start(bv.shares1[i + 1], bv.shares2[i + 1],
                                  <<got.value[1].value, got.value[2].value,
                                    got.value[3].value>>)
       IN  /\ bv' = [bv EXCEPT !.beaver_states[i + 1] = started]
           /\ published_shares' =
                 IF Raised(started) THEN published_shares
                 ELSE publish_share(
                         publish_share(published_shares, started.value.X_share,
                                       TestXLabel, i, bv.N),
                         started.value.Y_share, TestYLabel, i, bv.N)
    /\ UNCHANGED <<algVars, partyVars>>

\* TestBeaverServer.retrieve_shares(label)
retrieve_shares(published, label) ==
    IF label \in DOMAIN published
        THEN Return(published[label])
        ELSE Raise("AssertionError")

\* result[i] = beaver_dists[i].execute_end(beaver_states[i]), once the
\* states of all parties are collected
TestEnd(i) ==
    /\ bv.phase = "run"
    /\ i < bv.N
    /\ \A j \in 1..bv.N : bv.beaver_states[j] # None
    /\ Returned(bv.beaver_states[i + 1])
    /\ bv.result[i + 1] = None
    /\ LET Xs == retrieve_shares(published_shares, TestXLabel)
           Ys == retrieve_shares(published_shares, TestYLabel)
           res ==
               IF Raised(Xs) THEN Xs
               ELSE IF Raised(Ys) THEN Ys
               ELSE IF \E j \in 1..bv.N :
                          Xs.value[j] = None \/ Ys.value[j] = None
                   THEN Raise("AttributeError")
               ELSE execute_end(bv.beaver_states[i + 1].value.state,
                                Xs.value, Ys.value)
       IN  bv' = [bv EXCEPT !.result[i + 1] = res]
    /\ UNCHANGED <<published_shares, ttpVars, algVars, partyVars>>

NextBeaver ==
    \/ TestSetup
    \/ \E i \in 0..(MaxBeaverN - 1) : TestStart(i)
    \/ \E i \in 0..(MaxBeaverN - 1) : TestEnd(i)

InitSpecBeaver ==
    InitBeaver /\ InitTTP({ TestParticipant(i) : i \in 0..(MaxBeaverN - 1) }, {TestOpId})
        /\ IdleAlg /\ IdleParty

SpecBeaver == InitSpecBeaver /\ [][NextBeaver]_vars

----------------------------------------------------------------------------
(* test_secret_sharing.py: one run of an algebra test.  The test draws two *)
(* secrets and a number of parties, shares both secrets, combines the      *)
(* shares index-wise and reconstructs the combined shares.                 *)

AlgOps == {"share", "add", "sub", "add_scalar", "sub_scalar", "mul_scalar"}

InitAlg ==
    alg \in { [phase |-> "init", s1 |-> a, s2 |-> b, N |-> n, op |-> "none",
               shares1 |-> <<>>, shares2 |-> <<>>, r1 |-> <<>>, r2 |-> <<>>,
               rec |-> -1] : a \in SecretVals, b \in SecretVals, n \in 2..MaxN }

\* shares1 = share_secret(s1, N); shares2 = share_secret(s2, N)
AlgShareSecrets ==
    /\ alg.phase = "init"
    /\ \E d1 \in RandDraws(alg.N), d2 \in RandDraws(alg.N) :
          alg' = [alg EXCEPT !.phase = "shared",
                             !.shares1 = share_secret(alg.s1, d1),
                             !.shares2 = share_secret(alg.s2, d2)]
    /\ UNCHANGED <<ttpVars, bvVars, partyVars>>

\* the loop "for i in range(N)" of a test: r1 is the list the test
\* reconstructs, r2 the list it compares r1 with
AlgCombine(op) ==
    /\ alg.phase = "shared"
    /\ LET x(j) == alg.shares1[j]
           y(j) == alg.shares2[j]
           k == ScalarElement(alg.s2)
           first(j) ==
               CASE op = "share" -> x(j)
                 [] op = "add" -> add(x(j), y(j))
                 [] op = "sub" -> sub(x(j), y(j))
                 [] op = "add_scalar" -> add(x(j), k)
                 [] op = "sub_scalar" -> sub(x(j), k)
                 [] op = "mul_scalar" -> mul(x(j), k)
           second(j) ==
               CASE op = "share" -> x(j)
                 [] op = "add" -> add(y(j), x(j))
                 [] op = "sub" -> sub(x(j), y(j))
                 [] op = "add_scalar" -> add(k, x(j))
                 [] op = "sub_scalar" -> add(ScalarElement(0 - alg.s2), x(j))
                 [] op = "mul_scalar" -> mul(k, x(j))
       IN  alg' = [alg EXCEPT !.phase = "combined", !.op = op,
                              !.r1 = [j \in 1..alg.N |-> first(j)],
                              !.r2 = [j \in 1..alg.N |-> second(j)]]
    /\ UNCHANGED <<ttpVars, bvVars, partyVars>>

\* reconstruct_secret(result)
AlgReconstruct ==
    /\ alg.phase = "combined"
    /\ \A j \in 1..Len(alg.r1) : IsShare(alg.r1[j])
    /\ alg' = [alg EXCEPT !.phase = "done", !.rec = reconstruct_secret(alg.r1)]
    /\ UNCHANGED <<ttpVars, bvVars, partyVars>>

NextAlg ==
    \/ AlgShareSecrets
    \/ \E op \in AlgOps : AlgCombine(op)
    \/ AlgReconstruct

InitSpecAlg == InitAlg /\ IdleTTP /\ IdleBeaver /\ IdleParty

SpecAlg == InitSpecAlg /\ [][NextAlg]_vars

----------------------------------------------------------------------------
(* secret_sharing.py: the wire encoding of a share.  Bytes are strings    *)
(* here; the encoding is built and parsed character by character.          *)

Digits == "0123456789"

\* Python's str.find(ch, start) with 1-based positions: the position of the
\* first ch at or after start, 0 if there is none
RECURSIVE StrFind(_, _, _)
StrFind(s, ch, start) ==
    IF start > Len(s) THEN 0
    ELSE IF SubSeq(s, start, start) = ch THEN start
    ELSE StrFind(s, ch, start + 1)

\* Python's s.split("|"), of the part of s that starts at position from
RECURSIVE StrSplit(_, _)
StrSplit(s, from) ==
    LET rest(at) == IF at = 0 THEN <<SubSeq(s, from, Len(s))>>
                    ELSE <<SubSeq(s, from, at - 1)>> \o StrSplit(s, at + 1)
    IN  Once(rest, StrFind(s, "|", from))

\* the value of the decimal digits of s from position from on, -1 if a
\* character is no digit
RECURSIVE DigitsValue(_, _, _)
DigitsValue(s, from, acc) ==
    IF from > Len(s) THEN acc
    ELSE LET next(d) == IF d = 0 THEN -1
                        ELSE DigitsValue(s, from + 1, acc * 10 + (d - 1))
         IN  Once(next, StrFind(Digits, SubSeq(s, from, from), 1))

\* Python's int(s) for the strings serialize_share writes: an optional sign
\* and decimal digits, ValueError otherwise
ParseInt(s) ==
    LET neg == Len(s) > 0 /\ SubSeq(s, 1, 1) = "-"
        body == IF neg THEN 2 ELSE 1
        v == IF body > Len(s) THEN -1 ELSE DigitsValue(s, body, 0)
    IN  IF v < 0 THEN Raise("ValueError")
        ELSE Return(IF neg THEN 0 - v ELSE v)

serialize_share_Swapped(share) ==
    ToString(share.value) \o "|" \o ToString(share.index)

\* serialize_share(share)
serialize_share(share) ==
    ToString(share.index) \o "|" \o ToString(share.value)

\* unserialize_share(b)
unserialize_share(b) ==
    LET construct(ints) ==
            IF Raised(ints[1]) THEN ints[1]
            ELSE IF Raised(ints[2]) THEN ints[2]
            ELSE Share(ints[1].value, ints[2].value)
        decode(fields) ==
            IF Len(fields) < 2 THEN Raise("IndexError")
            ELSE Once(construct, <<ParseInt(fields[1]), ParseInt(fields[2])>>)
        split(s) == Once(decode, StrSplit(s, 1))
    IN  Once(split, b)

\* the name smc_party.py imports for the decoding of a received share
deserialize_share(payload) == unserialize_share(payload)

----------------------------------------------------------------------------
(* expression.py: expression trees                                         *)

\* ID_BYTES
ID_BYTES == 4

\* base64.b64encode of a bytearray of ID_BYTES bytes: three bytes give four
\* characters, the last byte two characters and the padding
b64encode(id_bytes) ==
    LET alphabet ==
            "ABCDEFGHIJKLMNOPQRSTUVWXYZabcdefghijklmnopqrstuvwxyz0123456789+/"
        ch(k) == SubSeq(alphabet, k + 1, k + 1)
        v == id_bytes[1] * 65536 + id_bytes[2] * 256 + id_bytes[3]
        w == id_bytes[4]
    IN  ch(v \div 262144) \o ch((v \div 4096) % 64) \o ch((v \div 64) % 64)
            \o ch(v % 64) \o ch(w \div 4) \o ch((w % 4) * 16) \o "=="

\* gen_id(), given the bytes random.getrandbits(8) returned
gen_id(id_bytes) == b64encode(id_bytes)

\* Expression.__init__: the id of the new node; id is None or Return(id)
Expression_init(id, id_bytes) ==
    IF id = None THEN gen_id(id_bytes) ELSE id.value

\* Secret(id=id): a Secret whose value is None has no value field
Secret(id) == [type |-> "SECRET", id |-> id]
\* Secret(value, id)
Secret_value(value, id) == [type |-> "SECRET", id |-> id, value |-> value]
Scalar(value, id) == [type |-> "SCALAR", id |-> id, value |-> value]
AddOp(left, right, id) ==
    [type |-> "ADD", id |-> id, left |-> left, right |-> right]
SubOp(left, right, id) ==
    [type |-> "SUB", id |-> id, left |-> left, right |-> right]
MulOp(left, right, id) ==
    [type |-> "MUL", id |-> id, left |-> left, right |-> right]

\* Expression(type, id): a node of none of the five subclasses
Expression(type, id) == [type |-> type, id |-> id]

prec(expr) ==
    IF expr.type = "MUL" THEN 2
    ELSE IF expr.type = "ADD" THEN 1
    ELSE IF expr.type = "SUB" THEN 1
    ELSE 3

RECURSIVE repr(_)

child_repr_NotHigher(self, child) ==
    LET child_str == repr(child)
    IN  IF prec(child) <= prec(self) THEN "(" \o child_str \o ")"
        ELSE child_str

child_repr(self, child) ==
    LET child_str == repr(child)
    IN  IF prec(child) < prec(self) THEN "(" \o child_str \o ")"
        ELSE child_str

\* __repr__ of SubOp, AddOp, MulOp, Scalar and Secret
repr(expr) ==
    CASE expr.type = "SUB" ->
            child_repr(expr, expr.left) \o " - " \o child_repr(expr, expr.right)
      [] expr.type = "ADD" ->
            child_repr(expr, expr.left) \o " + " \o child_repr(expr, expr.right)
      [] expr.type = "MUL" ->
            child_repr(expr, expr.left) \o " * " \o child_repr(expr, expr.right)
      [] expr.type = "SCALAR" -> "Scalar(" \o ToString(expr.value) \o ")"
      [] expr.type = "SECRET" ->
            "Secret(" \o (IF "value" \in DOMAIN expr
                             THEN ToString(expr.value) ELSE "") \o ")"

\* the nodes in the order process_expression returns from them: the left
\* operand, the right operand, then the operation
RECURSIVE PostOrder(_)
PostOrder(expr) ==
    IF expr.type \in {"ADD", "SUB", "MUL"}
        THEN PostOrder(expr.left) \o PostOrder(expr.right) \o <<expr>>
        ELSE <<expr>>

----------------------------------------------------------------------------
(* The message exchange between the parties: private messages are kept by  *)
(* (destination, label), public ones by (sender, label); a retrieval waits *)
(* for the message and leaves it in place.                                 *)

send_private_message_Lost(messages, dest_id, label, payload) == messages

\* comm.send_private_message(dest_id, label, payload)
send_private_message(messages, dest_id, label, payload) ==
    DictPut(messages, <<dest_id, label>>, payload)

\* comm.publish_message(label, payload) of client_id
publish_message(messages, client_id, label, payload) ==
    DictPut(messages, <<client_id, label>>, payload)

\* comm.retrieve_private_message(label) of client_id and
\* comm.retrieve_public_message(src_id, label) can return
message_there(messages, id, label) == <<id, label>> \in DOMAIN messages

\* comm.retrieve_beaver_triplet_shares(op_id): the three integers of the
\* shares the generator's retrieve_share returned
retrieve_beaver_triplet_shares(got) ==
    <<got.value[1].value, got.value[2].value, got.value[3].value>>

----------------------------------------------------------------------------
(* smc_party.py: SMCParty                                                  *)

\* the byte value of a character of the base64 alphabet
Ord(ch) ==
    LET upto_Z == StrFind("+,-./0123456789:;<=>?@ABCDEFGHIJKLMNOPQRSTUVWXYZ",
                          ch, 1)
        from_a == StrFind("abcdefghijklmnopqrstuvwxyz", ch, 1)
    IN  IF upto_Z > 0 THEN 42 + upto_Z ELSE 96 + from_a

\* int.from_bytes(secret_id, byteorder="big")
RECURSIVE int_from_bytes(_, _)
int_from_bytes(secret_id, acc) ==
    IF secret_id = "" THEN acc
    ELSE int_from_bytes(SubSeq(secret_id, 2, Len(secret_id)),
                        acc * 256 + Ord(SubSeq(secret_id, 1, 1)))

\* the label of send_secret_share and receive_secret_share
secret_share_label(secret_id) ==
    LET label(id) == "secret-share-" \o ToString(int_from_bytes(id, 0))
    IN  Once(label, secret_id)

\* the label of send_result_share and receive_result_share
result_share_label(id, info) ==
    IF info # "" THEN "result-share-" \o id \o "-" \o info
    ELSE "result-share-" \o id

\* send_result_share(share, info) of client_id
send_result_share(messages, client_id, share, info) ==
    publish_message(messages, client_id, result_share_label(client_id, info),
                    serialize_share(share))

send_secret_shares_SameShare(messages, participants, secret_id, shares) ==
    LET label == secret_share_label(secret_id)
        dests == { participants[j] : j \in 1..Len(participants) }
    IN  [key \in DOMAIN messages \cup { <<q, label>> : q \in dests } |->
            IF key[2] = label /\ key[1] \in dests
               THEN serialize_share(shares[1]) ELSE messages[key]]

\* send_secret_share(participant, secret.id, share) for
\* zip(all_participants, shares)
RECURSIVE send_secret_shares(_, _, _, _)
send_secret_shares(messages, participants, secret_id, shares) ==
    IF participants = <<>> \/ shares = <<>> THEN messages
    ELSE send_secret_shares(
            send_private_message(messages, Head(participants),
                                 secret_share_label(secret_id),
                                 serialize_share(Head(shares))),
            Tail(participants), secret_id, Tail(shares))

\* process_mul: the labels handed to the BeaverDistributor
X_label(op_id) == "X-" \o op_id
Y_label_AsX(op_id) == "X-" \o op_id
Y_label(op_id) == "Y-" \o op_id

\* the nodes of the protocol's expression, in evaluation order
Walk == PostOrder(protocol_spec.expr)

NewParty_NoDistribute(value_dict) ==
    [pc |-> "evaluate", k |-> 0, pos |-> 1, stack |-> <<>>, acc |-> <<>>,
     xs |-> <<>>, state |-> None, ret |-> None]

\* a party that has not started run()
NewParty(value_dict) ==
    [pc |-> IF value_dict = <<>> THEN "evaluate" ELSE "distribute",
     k |-> 0, pos |-> 1, stack |-> <<>>, acc |-> <<>>, xs |-> <<>>,
     state |-> None, ret |-> None]

\* run() ends with an exception
Fail(p, error) ==
    [party EXCEPT ![p].pc = "failed", ![p].ret = error, ![p].stack = <<>>,
                  ![p].acc = <<>>, ![p].xs = <<>>, ![p].state = None]

\* a node returns result to the node above it
Visited(p, operands, result) ==
    LET st == party[p].stack
        return(r) ==
            IF IsError(r) THEN Fail(p, r)
            ELSE [party EXCEPT
                    ![p].pc = "evaluate",
                    ![p].pos = @ + 1,
                    ![p].stack = Append(SubSeq(st, 1, Len(st) - operands), r),
                    ![p].k = 0, ![p].acc = <<>>, ![p].xs = <<>>,
                    ![p].state = None]
    IN  Once(return, result)

\* the node process_expression is at, and the values its operands returned
AtNode(p) == Walk[party[p].pos]
left_share(p) == party[p].stack[Len(party[p].stack) - 1]
right_share(p) == party[p].stack[Len(party[p].stack)]

NeedsBeaver_Never(p) == FALSE

\* process_mul, line 166 false: both operands are shares
NeedsBeaver(p) ==
    /\ AtNode(p).type = "MUL"
    /\ ~(IsScalar(left_share(p)) \/ IsScalar(right_share(p)))

\* run(), lines 54-60: the next secret of value_dict is shared and a share
\* sent to every participant
run_share_secrets(p) ==
    /\ p \in DOMAIN party
    /\ party[p].pc = "distribute"
    /\ LET value_dict == protocol_spec.value_dict[p]
           k == party[p].k
           secret_id == value_dict[k + 1][1]
           value == value_dict[k + 1][2]
           all_participants == protocol_spec.participant_ids
       IN  /\ \E draws \in RandDraws(Len(all_participants)) :
                 private_messages' =
                    send_secret_shares(private_messages, all_participants,
                                       secret_id, share_secret(value, draws))
           /\ party' = [party EXCEPT
                          ![p].k = k + 1,
                          ![p].pc = IF k + 1 = Len(value_dict)
                                       THEN "evaluate" ELSE "distribute"]
    /\ UNCHANGED <<protocol_spec, public_messages>>
    /\ UNCHANGED <<algVars, ttpVars, bvVars>>

process_unknown_Skip(p) == Visited(p, 0, ScalarElement(0))

\* process_expression, line 146: the node is of none of the five classes
process_unknown(p) == Fail(p, Raise("RuntimeError: Unknown expression type"))

\* process_expression at a node that needs no Beaver multiplication:
\* process_secret (waits for the share), process_scalar, process_add,
\* process_sub, process_mul with a scalar operand, or an unknown node
process_expression(p) ==
    /\ p \in DOMAIN party
    /\ party[p].pc = "evaluate"
    /\ party[p].pos <= Len(Walk)
    /\ \E expr \in {AtNode(p)} :
           CASE expr.type = "SECRET" ->
                  \E label \in {secret_share_label(expr.id)} :
                     /\ message_there(private_messages, p, label)
                     /\ party' = Visited(p, 0,
                           deserialize_share(private_messages[<<p, label>>]))
             [] expr.type = "SCALAR" ->
                  party' = Visited(p, 0, ScalarElement(expr.value))
             [] expr.type = "ADD" ->
                  party' = Visited(p, 2, add(left_share(p), right_share(p)))
             [] expr.type = "SUB" ->
                  party' = Visited(p, 2, sub(left_share(p), right_share(p)))
             [] expr.type = "MUL" ->
                  /\ ~NeedsBeaver(p)
                  /\ party' = Visited(p, 2, mul(left_share(p), right_share(p)))
             [] OTHER ->
                  party' = process_unknown(p)
    /\ UNCHANGED <<protocol_spec, private_messages, public_messages>>
    /\ UNCHANGED <<algVars, ttpVars, bvVars>>

process_mul_start_Checked(p, got) ==
    LET op_id == AtNode(p).id
        started == IF Raised(got) THEN got
                   ELSE IF got.value[1].index # left_share(p).index
                       THEN Raise("AssertionError")
                   ELSE execute_start(left_share(p), right_share(p),
                                      retrieve_beaver_triplet_shares(got))
    IN  IF Raised(started)
            THEN /\ party' = Fail(p, started)
                 /\ UNCHANGED public_messages
            ELSE /\ party' = [party EXCEPT ![p].pc = "recv_X", ![p].k = 0,
                                           ![p].acc = <<>>, ![p].xs = <<>>,
                                           ![p].state = started.value.state]
                 /\ public_messages' =
                       send_result_share(
                          send_result_share(public_messages, p,
                                            started.value.X_share,
                                            X_label(op_id)),
                          p, started.value.Y_share, Y_label(op_id))

\* BeaverDistributor.execute_start(left_share, right_share) of process_mul,
\* given what the generator answered: the blinded shares are published
\* under the X and Y labels
process_mul_start(p, got) ==
    LET op_id == AtNode(p).id
        started == IF Raised(got) THEN got
                   ELSE execute_start(left_share(p), right_share(p),
                                      retrieve_beaver_triplet_shares(got))
    IN  IF Raised(started)
            THEN /\ party' = Fail(p, started)
                 /\ UNCHANGED public_messages
            ELSE /\ party' = [party EXCEPT ![p].pc = "recv_X", ![p].k = 0,
                                           ![p].acc = <<>>, ![p].xs = <<>>,
                                           ![p].state = started.value.state]
                 /\ public_messages' =
                       send_result_share(
                          send_result_share(public_messages, p,
                                            started.value.X_share,
                                            X_label(op_id)),
                          p, started.value.Y_share, Y_label(op_id))

\* process_mul of two shares, the generator answering with no other call
\* in between
process_mul_serial(p) ==
    /\ p \in DOMAIN party
    /\ party[p].pc = "evaluate"
    /\ party[p].pos <= Len(Walk)
    /\ NeedsBeaver(p)
    /\ retrieve_share(p, AtNode(p).id)
    /\ process_mul_start(p, ttp_ret'.result)
    /\ UNCHANGED <<protocol_spec, private_messages>>
    /\ UNCHANGED <<algVars, bvVars>>

\* process_mul of two shares: the party's request reaches the generator
process_mul_call(p) ==
    /\ p \in DOMAIN party
    /\ party[p].pc = "evaluate"
    /\ party[p].pos <= Len(Walk)
    /\ NeedsBeaver(p)
    /\ retrieve_share_test(p, AtNode(p).id)
    /\ party' = IF ttp_ret' # ttp_ret
                   THEN Fail(p, ttp_ret'.result)
                   ELSE [party EXCEPT ![p].pc = "triplet"]
    /\ UNCHANGED <<protocol_spec, private_messages, public_messages>>
    /\ UNCHANGED <<algVars, bvVars>>

\* process_mul of two shares: the generator's answer reaches the party
process_mul_answer(p) ==
    /\ p \in DOMAIN party
    /\ party[p].pc = "triplet"
    /\ retrieve_share_return(p)
    /\ process_mul_start(p, ttp_ret'.result)
    /\ UNCHANGED <<protocol_spec, private_messages>>
    /\ UNCHANGED <<algVars, bvVars>>

process_mul_end_OwnOnly(p) ==
    /\ p \in DOMAIN party
    /\ party[p].pc \in {"recv_X", "recv_Y"}
    /\ LET op_id == AtNode(p).id
           own(info) == deserialize_share(
                           public_messages[<<p, result_share_label(p, info)>>])
       IN  party' = Visited(p, 2, execute_end(party[p].state,
                                              <<own(X_label(op_id))>>,
                                              <<own(Y_label(op_id))>>))
    /\ UNCHANGED <<protocol_spec, private_messages, public_messages>>
    /\ UNCHANGED <<algVars, ttpVars, bvVars>>

\* BeaverDistributor.execute_end of process_mul: receive_all_result_shares
\* under the X label, then under the Y label, one share per step; the
\* product share is computed once the last one is in
process_mul_end(p) ==
    /\ p \in DOMAIN party
    /\ party[p].pc \in {"recv_X", "recv_Y"}
    /\ LET op_id == AtNode(p).id
           info == IF party[p].pc = "recv_X" THEN X_label(op_id)
                   ELSE Y_label(op_id)
           k == party[p].k
           src_id == protocol_spec.participant_ids[k + 1]
           label == result_share_label(src_id, info)
       IN  /\ message_there(public_messages, src_id, label)
           /\ \E share \in
                    {deserialize_share(public_messages[<<src_id, label>>])} :
              LET shares == Append(party[p].acc, share)
                  last == k + 1 = Len(protocol_spec.participant_ids)
              IN  party' =
                    IF IsError(share) THEN Fail(p, share)
                    ELSE IF ~last
                        THEN [party EXCEPT ![p].k = k + 1, ![p].acc = shares]
                    ELSE IF party[p].pc = "recv_X"
                        THEN [party EXCEPT ![p].pc = "recv_Y", ![p].k = 0,
                                           ![p].acc = <<>>, ![p].xs = shares]
                    ELSE Visited(p, 2, execute_end(party[p].state,
                                                   party[p].xs, shares))
    /\ UNCHANGED <<protocol_spec, private_messages, public_messages>>
    /\ UNCHANGED <<algVars, ttpVars, bvVars>>

run_publish_NoAssert(p) ==
    /\ p \in DOMAIN party
    /\ party[p].pc = "evaluate"
    /\ party[p].pos > Len(Walk)
    /\ LET result == party[p].stack[Len(party[p].stack)]
           result_share == IF IsShare(result) THEN result
                           ELSE Share(0, result.value)
       IN  /\ party' = [party EXCEPT ![p].pc = "recv_result",
                                     ![p].k = 0, ![p].acc = <<>>,
                                     ![p].stack = <<>>]
           /\ public_messages' =
                 send_result_share(public_messages, p, result_share, "")
    /\ UNCHANGED <<protocol_spec, private_messages>>
    /\ UNCHANGED <<algVars, ttpVars, bvVars>>

\* run(), lines 62-66: the result of process_expression must be a share
\* and is published
run_publish(p) ==
    /\ p \in DOMAIN party
    /\ party[p].pc = "evaluate"
    /\ party[p].pos > Len(Walk)
    /\ LET result_share == party[p].stack[Len(party[p].stack)]
       IN  IF ~IsShare(result_share)
              THEN /\ party' = Fail(p, Raise("AssertionError"))
                   /\ UNCHANGED public_messages
              ELSE /\ party' = [party EXCEPT ![p].pc = "recv_result",
                                             ![p].k = 0, ![p].acc = <<>>,
                                             ![p].stack = <<>>]
                   /\ public_messages' =
                         send_result_share(public_messages, p, result_share, "")
    /\ UNCHANGED <<protocol_spec, private_messages>>
    /\ UNCHANGED <<algVars, ttpVars, bvVars>>

run_reconstruct_OwnShare(p) ==
    /\ p \in DOMAIN party
    /\ party[p].pc = "recv_result"
    /\ LET label == result_share_label(p, "")
           share == deserialize_share(public_messages[<<p, label>>])
       IN  party' = [party EXCEPT ![p].pc = "done", ![p].k = 0,
                                  ![p].acc = <<>>,
                                  ![p].ret =
                                     Return(reconstruct_secret(<<share>>))]
    /\ UNCHANGED <<protocol_spec, private_messages, public_messages>>
    /\ UNCHANGED <<algVars, ttpVars, bvVars>>

\* run(), lines 68-70: receive_all_result_shares(), one share per step, and
\* the return of reconstruct_secret of all of them
run_reconstruct(p) ==
    /\ p \in DOMAIN party
    /\ party[p].pc = "recv_result"
    /\ LET k == party[p].k
           src_id == protocol_spec.participant_ids[k + 1]
           label == result_share_label(src_id, "")
       IN  /\ message_there(public_messages, src_id, label)
           /\ \E share \in
                    {deserialize_share(public_messages[<<src_id, label>>])} :
              LET shares == Append(party[p].acc, share)
              IN  party' =
                    IF IsError(share) THEN Fail(p, share)
                    ELSE IF k + 1 < Len(protocol_spec.participant_ids)
                        THEN [party EXCEPT ![p].k = k + 1, ![p].acc = shares]
                    ELSE [party EXCEPT ![p].pc = "done", ![p].k = 0,
                                       ![p].acc = <<>>,
                                       ![p].ret =
                                          Return(reconstruct_secret(shares))]
    /\ UNCHANGED <<protocol_spec, private_messages, public_messages>>
    /\ UNCHANGED <<algVars, ttpVars, bvVars>>

----------------------------------------------------------------------------
(* test_use_case.py, test_expression.py style runs: every participant of a *)
(* ProtocolSpec runs one SMCParty; the generator knows the participants in *)
(* the ProtocolSpec's order.                                               *)

\* the members of a list
Range(list) == { list[j] : j \in 1..Len(list) }

\* 3 parties, A + B * Scalar(2), A = 3, B = 5
ProtocolAddScaled ==
    [participant_ids |-> <<"P0", "P1", "P2">>,
     expr |-> AddOp(Secret("sA"),
                    MulOp(Secret("sB"), Scalar(2, "k2"), "m1"), "a1"),
     value_dict |-> [P0 |-> <<<<"sA", 3>>>>, P1 |-> <<<<"sB", 5>>>>,
                     P2 |-> <<>>]]

\* 2 parties, A * B, A = 7, B = 9
ProtocolProduct ==
    [participant_ids |-> <<"P0", "P1">>,
     expr |-> MulOp(Secret("sA"), Secret("sB"), "m1"),
     value_dict |-> [P0 |-> <<<<"sA", 7>>>>, P1 |-> <<<<"sB", 9>>>>]]

\* 2 parties, (A - B) + Scalar(4), A = 7, B = 9
ProtocolDifference ==
    [participant_ids |-> <<"P0", "P1">>,
     expr |-> AddOp(SubOp(Secret("sA"), Secret("sB"), "d1"),
                    Scalar(4, "k4"), "a1"),
     value_dict |-> [P0 |-> <<<<"sA", 7>>>>, P1 |-> <<<<"sB", 9>>>>]]

\* 2 parties, A + (a node of no known class), A = 3
ProtocolUnknown ==
    [participant_ids |-> <<"P0", "P1">>,
     expr |-> AddOp(Secret("sA"), Expression("OTHER", "u1"), "a1"),
     value_dict |-> [P0 |-> <<<<"sA", 3>>>>, P1 |-> <<>>]]

ProtocolSpecs ==
    {ProtocolAddScaled, ProtocolProduct, ProtocolDifference, ProtocolUnknown}

\* the ids of the multiplications of an expression
MulIds(expr) ==
    LET walk == PostOrder(expr)
    IN  { walk[j].id : j \in { i \in 1..Len(walk) : walk[i].type = "MUL" } }

InitParty ==
    /\ protocol_spec \in ProtocolSpecs
    /\ party = [p \in Range(protocol_spec.participant_ids) |->
                  NewParty(protocol_spec.value_dict[p])]
    /\ private_messages = <<>>
    /\ public_messages = <<>>
    /\ participant_ids = protocol_spec.participant_ids
    /\ generated_shares = <<>>
    /\ calls = [c \in Range(protocol_spec.participant_ids) |-> [pc |-> "idle"]]
    /\ ttp_ret = [client |-> "", op |-> "", result |-> None,
                  again |-> FALSE, tick |-> 0]
    /\ handed = [k \in Range(protocol_spec.participant_ids)
                         \X MulIds(protocol_spec.expr) |-> None]
    /\ generations = [o \in MulIds(protocol_spec.expr) |-> 0]

PartyIds == {"P0", "P1", "P2"}

NextParty ==
    \/ \E p \in PartyIds : run_share_secrets(p)
    \/ \E p \in PartyIds : process_expression(p)
    \/ \E p \in PartyIds : process_mul_call(p)
    \/ \E p \in PartyIds : retrieve_share_generate(p)
    \/ \E p \in PartyIds : retrieve_share_write(p)
    \/ \E p \in PartyIds : process_mul_answer(p)
    \/ \E p \in PartyIds : process_mul_end(p)
    \/ \E p \in PartyIds : run_publish(p)
    \/ \E p \in PartyIds : run_reconstruct(p)

NextPartySerial ==
    \/ \E p \in PartyIds : run_share_secrets(p)
    \/ \E p \in PartyIds : process_expression(p)
    \/ \E p \in PartyIds : process_mul_serial(p)
    \/ \E p \in PartyIds : process_mul_end(p)
    \/ \E p \in PartyIds : run_publish(p)
    \/ \E p \in PartyIds : run_reconstruct(p)

InitSpecParty == InitParty /\ IdleAlg /\ IdleBeaver

\* the parties run at once and so do their requests to the generator
SpecParty == InitSpecParty /\ [][NextParty]_vars

\* the parties run at once, the generator answers one request at a time
SpecPartySerial == InitSpecParty /\ [][NextPartySerial]_vars

----------------------------------------------------------------------------
(* smc_party.py: runs in which one participant aborts: its process ends    *)
(* before it has published its result share, and nothing it has sent or    *)
(* published is taken back. Every other party keeps running.               *)

\* the runs of protocols whose expression every party can evaluate
InitAbort ==
    /\ InitParty
    /\ protocol_spec # ProtocolUnknown

\* the process of p ends before send_result_share(result_share) of run()
abort(p) ==
    /\ p \in DOMAIN party
    /\ party[p].pc \in {"distribute", "evaluate", "recv_X", "recv_Y"}
    /\ \A q \in DOMAIN party : party[q].pc # "aborted"
    /\ party' = [party EXCEPT ![p].pc = "aborted", ![p].k = 0,
                              ![p].stack = <<>>, ![p].acc = <<>>,
                              ![p].xs = <<>>, ![p].state = None]
    /\ UNCHANGED <<protocol_spec, private_messages, public_messages>>
    /\ UNCHANGED <<algVars, ttpVars, bvVars>>

\* one step of run() of p
Run(p) ==
    \/ run_share_secrets(p)
    \/ process_expression(p)
    \/ process_mul_serial(p)
    \/ process_mul_end(p)
    \/ run_publish(p)
    \/ run_reconstruct(p)

NextAbort ==
    \/ \E p \in PartyIds : run_share_secrets(p)
    \/ \E p \in PartyIds : process_expression(p)
    \/ \E p \in PartyIds : process_mul_serial(p)
    \/ \E p \in PartyIds : process_mul_end(p)
    \/ \E p \in PartyIds : run_publish(p)
    \/ \E p \in PartyIds : run_reconstruct(p)
    \/ \E p \in PartyIds : abort(p)

InitSpecAbort == InitAbort /\ IdleAlg /\ IdleBeaver

\* the parties are processes of their own: while one of them can take a
\* step, one of them does
SpecAbort ==
    InitSpecAbort /\ [][NextAbort]_vars /\ WF_vars(\E p \in PartyIds : Run(p))

----------------------------------------------------------------------------
(* smc_party.py: complete runs. Every participant is a process of its own  *)
(* that keeps running run() while it can take a step; the generator        *)
(* answers one request at a time.                                          *)

SpecPartyFair ==
    /\ InitSpecAbort
    /\ [][NextPartySerial]_vars
    /\ \A p \in PartyIds : WF_vars(Run(p))

----------------------------------------------------------------------------
(* smc_party.py: runs of expressions that cannot be evaluated to a share,  *)
(* next to a run that can, with the participants registered at the         *)
(* generator in any order.                                                 *)

\* 2 parties, Scalar(2) + Scalar(3); P0 has a secret of its own
ProtocolScalars ==
    [participant_ids |-> <<"P0", "P1">>,
     expr |-> AddOp(Scalar(2, "k2"), Scalar(3, "k3"), "a1"),
     value_dict |-> [P0 |-> <<<<"sA", 3>>>>, P1 |-> <<>>]]

\* 2 parties, Scalar(5) - A, A = 3
ProtocolScalarMinus ==
    [participant_ids |-> <<"P0", "P1">>,
     expr |-> SubOp(Scalar(5, "k5"), Secret("sA"), "d1"),
     value_dict |-> [P0 |-> <<<<"sA", 3>>>>, P1 |-> <<>>]]

ErrorSpecs == {ProtocolScalars, ProtocolScalarMinus, ProtocolProduct}

\* the lists that hold every member of ids once
Orders(ids) ==
    { order \in [1..Len(ids) -> Range(ids)] : Range(order) = Range(ids) }

InitErrors ==
    /\ protocol_spec \in ErrorSpecs
    /\ party = [p \in Range(protocol_spec.participant_ids) |->
                  NewParty(protocol_spec.value_dict[p])]
    /\ private_messages = <<>>
    /\ public_messages = <<>>
    /\ participant_ids \in Orders(protocol_spec.participant_ids)
    /\ generated_shares = <<>>
    /\ calls = [c \in Range(protocol_spec.participant_ids) |-> [pc |-> "idle"]]
    /\ ttp_ret = [client |-> "", op |-> "", result |-> None,
                  again |-> FALSE, tick |-> 0]
    /\ handed = [k \in Range(protocol_spec.participant_ids)
                         \X MulIds(protocol_spec.expr) |-> None]
    /\ generations = [o \in MulIds(protocol_spec.expr) |-> 0]

InitSpecErrors == InitErrors /\ IdleAlg /\ IdleBeaver

SpecPartyErrors == InitSpecErrors /\ [][NextPartySerial]_vars

----------------------------------------------------------------------------
(* smc_party.py: the run of one party whose peer's messages are already    *)
(* there: the secret shares sent to it and the peer's blinded shares and   *)
(* result share are well-formed shares of arbitrary index.                 *)

\* 2 parties, A * B, both secrets owned by the peer P1
ProtocolReceive ==
    [participant_ids |-> <<"P0", "P1">>,
     expr |-> MulOp(Secret("sA"), Secret("sB"), "m1"),
     value_dict |-> [P0 |-> <<>>, P1 |-> <<<<"sA", 7>>, <<"sB", 9>>>>]]

\* the party that runs and its peer
Receiver == "P0"
Peer == "P1"

\* the indices a received share may carry
WireIndices == 0..(Len(ProtocolReceive.participant_ids) - 1)

InitReceive ==
    /\ protocol_spec = ProtocolReceive
    /\ party = [p \in {Receiver} |-> NewParty(protocol_spec.value_dict[p])]
    /\ \E iA \in WireIndices, iB \in WireIndices :
          private_messages =
             send_private_message(
                send_private_message(<<>>, Receiver, secret_share_label("sA"),
                                     serialize_share(Share(iA, ZqSample[1]))),
                Receiver, secret_share_label("sB"),
                serialize_share(Share(iB, ZqSample[2])))
    /\ \E iX \in WireIndices, iY \in WireIndices, iR \in WireIndices :
          public_messages =
             send_result_share(
                send_result_share(
                   send_result_share(<<>>, Peer, Share(iX, ZqSample[4]),
                                     X_label("m1")),
                   Peer, Share(iY, ZqSample[5]), Y_label("m1")),
                Peer, Share(iR, ZqSample[6]), "")
    /\ participant_ids = protocol_spec.participant_ids
    /\ generated_shares = <<>>
    /\ calls = [c \in Range(protocol_spec.participant_ids) |-> [pc |-> "idle"]]
    /\ ttp_ret = [client |-> "", op |-> "", result |-> None,
                  again |-> FALSE, tick |-> 0]
    /\ handed = [k \in Range(protocol_spec.participant_ids)
                         \X MulIds(protocol_spec.expr) |-> None]
    /\ generations = [o \in MulIds(protocol_spec.expr) |-> 0]

NextReceive ==
    \/ process_expression(Receiver)
    \/ process_mul_serial(Receiver)
    \/ process_mul_end(Receiver)
    \/ run_publish(Receiver)
    \/ run_reconstruct(Receiver)

InitSpecReceive == InitReceive /\ IdleAlg /\ IdleBeaver

SpecReceive == InitSpecReceive /\ [][NextReceive]_vars

----------------------------------------------------------------------------
(* testutils.py: one BeaverDistributor made by                             *)
(* create_test_beaver_distributor(server, client_id, client_index, op_id), *)
(* whose execute_start is called with two shares, after the participants   *)
(* were registered at the server's generator in some order.                *)

InitStart ==
    /\ bv \in { [client_id |-> c, client_index |-> k,
                 x |-> Share(i, ZqSample[1]), y |-> Share(j, ZqSample[2]),
                 started |-> None] :
                   c \in ClientIds, k \in 0..(MaxRegs - 1),
                   i \in 0..(MaxRegs - 1), j \in 0..(MaxRegs - 1) }
    /\ published_shares = <<>>

\* execute_start(x, y): the triplet retriever is
\* TestBeaverServer.retrieve_triplets, the publisher
\* TestBeaverServer.publish_share
StartCall ==
    /\ bv.started = None
    /\ retrieve_share(bv.client_id, TestOpId)
    /\ LET got == ttp_ret'.result
           started ==
               IF Raised(got) THEN got
               ELSE execute_start(bv.x, bv.y,
                                  <<got.value[1].value, got.value[2].value,
                                    got.value[3].value>>)
       IN  /\ bv' = [bv EXCEPT !.started = started]
           /\ published_shares' =
                 IF Raised(started) THEN published_shares
                 ELSE publish_share(
                         publish_share(published_shares, started.value.X_share,
                                       TestXLabel, bv.client_index, MaxRegs),
                         started.value.Y_share, TestYLabel, bv.client_index,
                         MaxRegs)
    /\ UNCHANGED <<algVars, partyVars>>

NextStart == Register \/ StartCall

InitSpecStart ==
    InitStart /\ InitTTP(ClientIds, {TestOpId}) /\ IdleAlg /\ IdleParty

SpecStart == InitSpecStart /\ [][NextStart]_vars

----------------------------------------------------------------------------
(* secret_sharing.py: one operation of the field algebra on two elements   *)
(* built from arbitrary integers, or one trip of a share over the wire.    *)

\* integers handed to the constructors: in range, negative and oversized
IntSample == <<3, 10336, -4, 10340, 0, -10337, 20677, 1>>
\* number of values of IntSample in use
NumInts == 4
\* largest share index in use
MaxIndex == 2

FieldInts == { IntSample[j] : j \in 1..NumInts }

\* what a constructor is called with: ScalarElement(raw) or Share(index, raw)
FieldArgs ==
    [kind : {"Scalar"}, index : {0}, raw : FieldInts]
        \cup [kind : {"Share"}, index : 0..MaxIndex, raw : FieldInts]

\* the constructor call
Construct(arg) ==
    IF arg.kind = "Scalar" THEN ScalarElement(arg.raw)
    ELSE Share(arg.index, arg.raw)

InitField ==
    alg \in { [a |-> a, b |-> b, left |-> Construct(a), right |-> Construct(b),
               op |-> "new", wire |-> "", result |-> None] :
                 a \in FieldArgs, b \in FieldArgs }

\* left + right
FieldAdd ==
    /\ alg.op = "new"
    /\ alg' = [alg EXCEPT !.op = "add", !.result = add(alg.left, alg.right)]
    /\ UNCHANGED <<ttpVars, bvVars, partyVars>>

\* left - right
FieldSub ==
    /\ alg.op = "new"
    /\ alg' = [alg EXCEPT !.op = "sub", !.result = sub(alg.left, alg.right)]
    /\ UNCHANGED <<ttpVars, bvVars, partyVars>>

\* left * right
FieldMul ==
    /\ alg.op = "new"
    /\ alg' = [alg EXCEPT !.op = "mul", !.result = mul(alg.left, alg.right)]
    /\ UNCHANGED <<ttpVars, bvVars, partyVars>>

\* unserialize_share(serialize_share(left))
FieldWire ==
    /\ alg.op = "new"
    /\ IsShare(alg.left)
    /\ LET b == serialize_share(alg.left)
       IN  alg' = [alg EXCEPT !.op = "wire", !.wire = b,
                              !.result = unserialize_share(b)]
    /\ UNCHANGED <<ttpVars, bvVars, partyVars>>

NextField == FieldAdd \/ FieldSub \/ FieldMul \/ FieldWire

InitSpecField == InitField /\ IdleTTP /\ IdleBeaver /\ IdleParty

SpecField == InitSpecField /\ [][NextField]_vars

----------------------------------------------------------------------------
(* expression.py: building expressions. The nodes are kept in the order of *)
(* the constructor calls, each with the id argument of its call.           *)

\* largest number of constructor calls
MaxNodes == 3
\* results of the four calls of random.getrandbits(8) of one gen_id()
IdBytesSample == <<<<0, 0, 0, 0>>, <<255, 16, 131, 7>>, <<1, 2, 3, 4>>,
                   <<104, 203, 45, 250>>>>
\* number of values of IdBytesSample gen_id() draws from
NumIds == 2
\* the id arguments of the constructor calls
IdArgs == {None, Return("bm9kZQ==")}
\* the value arguments of Secret, None among them, and of Scalar
SecretArgs == {None, Return(1), Return(2)}
ScalarArgs == {4}

InitExpr == alg = [built |-> <<>>, given |-> <<>>]

\* the new node joins the nodes built so far
Built(node, id) ==
    /\ Len(alg.built) < MaxNodes
    /\ alg' = [built |-> Append(alg.built, node), given |-> Append(alg.given, id)]
    /\ UNCHANGED <<ttpVars, bvVars, partyVars>>

\* Secret(value, id)
NewSecret ==
    \E value \in SecretArgs, id \in IdArgs :
        \E id_bytes \in { IdBytesSample[j] : j \in 1..(IF id = None THEN NumIds ELSE 1) } :
            LET new_id == Expression_init(id, id_bytes)
            IN  Built(IF value = None THEN Secret(new_id)
                      ELSE Secret_value(value.value, new_id), id)

\* Scalar(value, id)
NewScalar ==
    \E value \in ScalarArgs, id \in IdArgs :
        \E id_bytes \in { IdBytesSample[j] : j \in 1..(IF id = None THEN NumIds ELSE 1) } :
            Built(Scalar(value, Expression_init(id, id_bytes)), id)

\* AddOp, SubOp and MulOp of two nodes built before; left + right,
\* left - right and left * right are the calls with no id
NewOp ==
    \E type \in {"ADD", "SUB", "MUL"}, id \in IdArgs :
        \E l \in 1..Len(alg.built), r \in 1..Len(alg.built) :
            \E id_bytes \in { IdBytesSample[j] : j \in 1..(IF id = None THEN NumIds ELSE 1) } :
                LET new_id == Expression_init(id, id_bytes)
                    left == alg.built[l]
                    right == alg.built[r]
                IN  Built(CASE type = "ADD" -> AddOp(left, right, new_id)
                            [] type = "SUB" -> SubOp(left, right, new_id)
                            [] type = "MUL" -> MulOp(left, right, new_id), id)

NextExpr == NewSecret \/ NewScalar \/ NewOp

InitSpecExpr == InitExpr /\ IdleTTP /\ IdleBeaver /\ IdleParty

SpecExpr == InitSpecExpr /\ [][NextExpr]_vars

----------------------------------------------------------------------------
(* Properties of the algebra                                               *)

\* C3 (sharing round-trip): share_secret(s, n) returns exactly n Shares
\* whose indices are 0..n-1 in list order, and reconstruct_secret of that
\* list is s.
C3_SharingRoundTrip ==
    /\ alg.phase # "init" =>
          /\ Len(alg.shares1) = alg.N
          /\ \A j \in 1..alg.N :
                IsShare(alg.shares1[j]) /\ alg.shares1[j].index = j - 1
    /\ (alg.phase = "done" /\ alg.op = "share") => alg.rec = alg.s1

C3_Witness ==
    /\ alg.phase = "done" /\ alg.op = "share" /\ alg.N = 3
    /\ alg.s1 = 1 /\ alg.rec = 1
    /\ alg.shares1[1].value = 3 /\ alg.shares1[2].value = 10336

\* C4 (additive homomorphism): reconstructing the index-wise sums of two
\* sharings gives (s1 + s2) mod Q, reconstructing the index-wise
\* differences gives (s1 - s2) mod Q, and Share + Share is commutative in
\* value.
C4_AdditiveHomomorphism ==
    /\ (alg.phase = "done" /\ alg.op = "add") =>
          alg.rec = (alg.s1 + alg.s2) % default_q
    /\ (alg.phase = "done" /\ alg.op = "sub") =>
          alg.rec = (alg.s1 - alg.s2) % default_q
    /\ (alg.phase \in {"combined", "done"} /\ alg.op \in {"add", "sub"}) =>
          \A j \in 1..alg.N : IsShare(alg.r1[j]) /\ IsShare(alg.r2[j])
    /\ (alg.phase \in {"combined", "done"} /\ alg.op = "add") =>
          \A j \in 1..alg.N : alg.r1[j].value = alg.r2[j].value

C4_Witness ==
    /\ alg.phase = "done" /\ alg.op = "sub" /\ alg.N = 3
    /\ alg.s1 = 1 /\ alg.s2 = 10336 /\ alg.rec = 2

\* C5 (scalar distributivity): reconstructing the shares of s each added
\* to ScalarElement(k) gives (s + k) mod Q, each minus ScalarElement(k)
\* gives (s - k) mod Q; share + scalar and scalar + share have the same
\* value, and share - ScalarElement(k) has the value of
\* ScalarElement(-k) + share.
C5_ScalarDistributivity ==
    /\ (alg.phase = "done" /\ alg.op = "add_scalar") =>
          alg.rec = (alg.s1 + alg.s2) % default_q
    /\ (alg.phase = "done" /\ alg.op = "sub_scalar") =>
          alg.rec = (alg.s1 - alg.s2) % default_q
    /\ (alg.phase \in {"combined", "done"}
            /\ alg.op \in {"add_scalar", "sub_scalar"}) =>
          \A j \in 1..alg.N :
             /\ IsShare(alg.r1[j]) /\ IsShare(alg.r2[j])
             /\ alg.r1[j].value = alg.r2[j].value

C5_Witness ==
    /\ alg.phase = "done" /\ alg.op = "sub_scalar" /\ alg.N = 3
    /\ alg.s1 = 0 /\ alg.s2 = 1 /\ alg.rec = 10336

\* C6 (scalar multiplication): Share * Scalar and Scalar * Share both
\* return a Share with the share's index and value (k * v) mod Q, and
\* reconstructing the shares of s each multiplied by ScalarElement(k)
\* gives (s * k) mod Q.
C6_ScalarMultiplication ==
    /\ (alg.phase \in {"combined", "done"} /\ alg.op = "mul_scalar") =>
          \A j \in 1..alg.N :
             LET expected == Share(alg.shares1[j].index,
                                   alg.s2 * alg.shares1[j].value)
             IN  /\ alg.r1[j] = expected
                 /\ alg.r2[j] = expected
                 /\ expected.index = j - 1
                 /\ expected.value = (alg.s2 * alg.shares1[j].value) % default_q
    /\ (alg.phase = "done" /\ alg.op = "mul_scalar") =>
          alg.rec = (alg.s1 * alg.s2) % default_q

C6_Witness ==
    /\ alg.phase = "done" /\ alg.op = "mul_scalar" /\ alg.N = 3
    /\ alg.s1 = 10336 /\ alg.s2 = 10336 /\ alg.rec = 1

----------------------------------------------------------------------------
(* Properties of the trusted parameter generator                           *)

\* no id is registered twice
Distinct(list) ==
    \A j, k \in 1..Len(list) : j # k => list[j] # list[k]

\* every registered participant has been handed shares for op_id
AllHanded(op_id) ==
    \A j \in 1..Len(participant_ids) :
        handed[<<participant_ids[j], op_id>>] # None

\* the a (m = 1), b (m = 2) or c (m = 3) shares handed to the registered
\* participants for op_id
HandedShares(op_id, m) ==
    [j \in 1..Len(participant_ids) |->
        handed[<<participant_ids[j], op_id>>].value[m]]

OneTriplet(op_id) ==
    (reconstruct_secret(HandedShares(op_id, 1))
        * reconstruct_secret(HandedShares(op_id, 2))) % default_q
    = reconstruct_secret(HandedShares(op_id, 3))

\* C7 (triplet consistency): once n distinct participants are registered,
\* the shares retrieve_share returned to each of them for one op_id, in
\* any call order, are shares of one triplet: the a shares and the b
\* shares reconstruct to values whose product mod Q is what the c shares
\* reconstruct to.
C7_TripletConsistency ==
    \A o \in OpIds :
        (Len(participant_ids) >= 1 /\ Distinct(participant_ids) /\ AllHanded(o))
            => OneTriplet(o)

\* both participants were served for op1, the second registered first, and
\* the triplet is not a trivial one
C7_Witness ==
    /\ participant_ids = <<"P0", "P1">>
    /\ AllHanded("op1")
    /\ ttp_ret.client = "P0" /\ ~ttp_ret.again
    /\ reconstruct_secret(HandedShares("op1", 1)) = 10336
    /\ reconstruct_secret(HandedShares("op1", 2)) = 10336
    /\ reconstruct_secret(HandedShares("op1", 3)) = 1

\* C8 (generate-once cache): the share vectors cached for an op_id are the
\* ones stored by the first retrieve_share for it: no later call, for the
\* same or another op_id or client, and no registration replaces or
\* changes them, and a repeated retrieve_share(client_id, op_id) returns
\* the three shares the first one returned.
C8_GenerateOnceCache ==
    [][ /\ \A o \in DOMAIN generated_shares :
              /\ o \in DOMAIN generated_shares'
              /\ generated_shares'[o] = generated_shares[o]
        /\ (ttp_ret' # ttp_ret /\ ttp_ret'.again /\ Returned(ttp_ret'.result))
              => ttp_ret'.result = handed[<<ttp_ret'.client, ttp_ret'.op>>]
      ]_vars

\* a client asks again for an op_id whose triplet was generated before the
\* second registration and before the other op_id's triplet
C8_Witness ==
    /\ ttp_ret.again /\ Returned(ttp_ret.result)
    /\ ttp_ret.client = "P0" /\ ttp_ret.op = "op1"
    /\ Len(participant_ids) = 2
    /\ DOMAIN generated_shares = {"op1", "op2"}
    /\ Len(generated_shares["op1"][1]) = 1
    /\ Len(generated_shares["op2"][1]) = 2
    /\ generations["op1"] = 1

\* C9 (concurrent retrieval): concurrent retrieve_share calls for one
\* op_id cause exactly one triplet generation, and all callers receive
\* shares of that one triplet.
C9_SingleGeneration ==
    \A o \in OpIds :
        /\ generations[o] <= 1
        /\ (Distinct(participant_ids) /\ Len(participant_ids) >= 1 /\ AllHanded(o))
              => OneTriplet(o)

\* C10 (unregistered client): retrieve_share fails for a client_id that
\* was never registered, and the failing call generates and caches
\* nothing: participant list and cache are unchanged.
C10_UnregisteredFails ==
    [][ (ttp_ret' # ttp_ret /\ ~InList(ttp_ret'.client, participant_ids))
          => /\ Raised(ttp_ret'.result)
             /\ participant_ids' = participant_ids
             /\ generated_shares' = generated_shares
             /\ generations' = generations
             /\ handed' = handed
      ]_vars

\* the call of a client that is not registered has just failed, while
\* another client is registered and has a cached triplet
C10_Witness ==
    /\ ttp_ret.client = "P1" /\ Raised(ttp_ret.result)
    /\ ~InList("P1", participant_ids)
    /\ participant_ids = <<"P0", "P0">>
    /\ "op1" \in DOMAIN generated_shares

----------------------------------------------------------------------------
(* Properties of the Beaver multiplication                                 *)

\* every simulated party has run execute_start and execute_end
AllEnded == \A j \in 1..bv.N : bv.result[j] # None

\* C2 (Beaver correctness): with n participants registered at the
\* generator, any additive sharing of x and y, and every party running
\* execute_start and then execute_end on the returned state for the same
\* operation id, the n returned shares sum to (x * y) mod Q.
C2_BeaverCorrectness ==
    (bv.phase = "run" /\ AllEnded /\ \A j \in 1..bv.N : IsShare(bv.result[j]))
        => reconstruct_secret(bv.result) = (bv.s1 * bv.s2) % default_q

\* three parties multiplied 10336 by 10336 (the product wraps around q);
\* every party's execute_end ran after every party's execute_start
C2_Witness ==
    /\ bv.phase = "run" /\ bv.N = 3 /\ AllEnded
    /\ \A j \in 1..bv.N : IsShare(bv.result[j]) /\ bv.result[j].index = j - 1
    /\ bv.s1 = 10336 /\ bv.s2 = 10336
    /\ reconstruct_secret(bv.result) = 1

----------------------------------------------------------------------------
(* Properties of the evaluator                                             *)

\* the plaintext secrets of all parties, by secret id
PlainSecrets ==
    LET entries == UNION { { <<p, j>> : j \in 1..Len(protocol_spec.value_dict[p]) } :
                           p \in DOMAIN protocol_spec.value_dict }
    IN  [id \in { protocol_spec.value_dict[e[1]][e[2]][1] : e \in entries } |->
            LET e == CHOOSE e \in entries :
                        protocol_spec.value_dict[e[1]][e[2]][1] = id
            IN  protocol_spec.value_dict[e[1]][e[2]][2]]

\* the expression evaluated over the plaintext secrets
RECURSIVE Eval(_)
Eval(expr) ==
    CASE expr.type = "SECRET" -> PlainSecrets[expr.id]
      [] expr.type = "SCALAR" -> expr.value
      [] expr.type = "ADD" -> Eval(expr.left) + Eval(expr.right)
      [] expr.type = "SUB" -> Eval(expr.left) - Eval(expr.right)
      [] expr.type = "MUL" -> Eval(expr.left) * Eval(expr.right)

\* C1 (end-to-end correctness and agreement): every party whose run() has
\* returned has returned the expression evaluated over the plaintext
\* secrets modulo Q, so all returned values are the same.
C1_EndToEnd ==
    \A p \in DOMAIN party :
        party[p].pc = "done" =>
            party[p].ret = Return(Eval(protocol_spec.expr) % default_q)

\* every party's run() has returned
AllDone == \A p \in DOMAIN party : party[p].pc = "done"

----------------------------------------------------------------------------
(* Properties of single field operations                                   *)

\* a scalar on the left and a share on the right, and the other way round
ScalarShare == IsScalar(alg.left) /\ IsShare(alg.right)
ShareScalar == IsShare(alg.left) /\ IsScalar(alg.right)
ShareShare == IsShare(alg.left) /\ IsShare(alg.right)

\* C11 (scalar minus share): ScalarElement - Share raises for every scalar
\* value, share index and share value; Share - ScalarElement returns a Share.
C11_ScalarMinusShare ==
    alg.op = "sub" =>
        /\ ScalarShare => IsError(alg.result)
        /\ ShareScalar => IsShare(alg.result)

C11_Witness ==
    /\ alg.op = "sub"
    /\ ScalarShare
    /\ alg.right.index = 2
    /\ alg.result = Raise("RuntimeError: Implicit scalar - share not defined!")

\* C12 (share times share): Share * Share raises for every pair of shares,
\* of equal or of different indices, and never returns a value.
C12_ShareTimesShare ==
    (alg.op = "mul" /\ ShareShare) => IsError(alg.result)

C12_Witness ==
    /\ alg.op = "mul"
    /\ ShareShare
    /\ alg.left.index = 1
    /\ alg.right.index = 1
    /\ IsError(alg.result)

\* C13 (share plus or minus share): the operation raises when the indices
\* differ; with equal indices it returns a Share of that index whose value
\* is (v1 + v2) mod Q, respectively (v1 - v2) mod Q.
C13_ShareShareIndices ==
    (alg.op \in {"add", "sub"} /\ ShareShare) =>
        IF alg.left.index # alg.right.index
            THEN IsError(alg.result)
            ELSE alg.result =
                    [kind |-> "Share", index |-> alg.left.index,
                     value |-> IF alg.op = "add"
                                  THEN (alg.left.value + alg.right.value)
                                          % default_q
                                  ELSE (alg.left.value - alg.right.value)
                                          % default_q]

C13_Witness ==
    /\ alg.op = "add"
    /\ ShareShare
    /\ alg.left.index = 0
    /\ alg.right.index = 2
    /\ alg.result = Raise("AssertionError")

\* the stored value of a field element is in [0, Q)
InRange(e) == e.kind \in {"Scalar", "Share"} => e.value \in 0..(default_q - 1)

\* every element of a list of field elements is in range
AllInRange(list) == \A j \in 1..Len(list) : InRange(list[j])

\* the operands and the result of a single field operation
FieldInRange ==
    "left" \in DOMAIN alg =>
        InRange(alg.left) /\ InRange(alg.right) /\ InRange(alg.result)

\* the shares, the combined shares and the reconstructed value of an
\* algebra test
AlgInRange ==
    "shares1" \in DOMAIN alg =>
        /\ AllInRange(alg.shares1) /\ AllInRange(alg.shares2)
        /\ AllInRange(alg.r1) /\ AllInRange(alg.r2)
        /\ alg.phase = "done" => alg.rec \in 0..(default_q - 1)

\* the cached triplet shares of the generator
TripletsInRange ==
    \A op_id \in DOMAIN generated_shares :
        \A j \in 1..3 : AllInRange(generated_shares[op_id][j])

\* the shares, the blinded shares, the states and the results of a Beaver
\* test
BeaverInRange ==
    "shares1" \in DOMAIN bv =>
        /\ AllInRange(bv.shares1) /\ AllInRange(bv.shares2)
        /\ AllInRange(bv.result)
        /\ \A j \in 1..bv.N :
              Returned(bv.beaver_states[j]) =>
                 /\ InRange(bv.beaver_states[j].value.X_share)
                 /\ InRange(bv.beaver_states[j].value.Y_share)
                 /\ AllInRange(bv.beaver_states[j].value.state)
        /\ \A label \in DOMAIN published_shares :
              AllInRange(published_shares[label])

\* the values a party holds during run() and the value run() returns
PartyInRange ==
    \A p \in DOMAIN party :
        /\ AllInRange(party[p].stack)
        /\ AllInRange(party[p].acc)
        /\ AllInRange(party[p].xs)
        /\ party[p].pc \in {"recv_X", "recv_Y"} => AllInRange(party[p].state)
        /\ Returned(party[p].ret) => party[p].ret.value \in 0..(default_q - 1)

C15_ScalarOnlyAtIndexZero ==
    /\ (alg.op = "add" /\ (ShareScalar \/ ScalarShare)) =>
          LET share == IF IsShare(alg.left) THEN alg.left ELSE alg.right
              scalar == IF IsShare(alg.left) THEN alg.right ELSE alg.left
          IN  alg.result =
                 [kind |-> "Share", index |-> share.index,
                  value |-> IF share.index = 0
                               THEN (share.value + scalar.value) % default_q
                               ELSE share.value]
    /\ (alg.op = "sub" /\ ShareScalar) =>
          alg.result =
             [kind |-> "Share", index |-> alg.left.index,
              value |-> IF alg.left.index = 0
                           THEN (alg.left.value - alg.right.value) % default_q
                           ELSE alg.left.value]

C15_Witness ==
    /\ alg.op = "sub"
    /\ alg.left = [kind |-> "Share", index |-> 2, value |-> 3]
    /\ alg.right = [kind |-> "Scalar", value |-> 10336]
    /\ alg.result = [kind |-> "Share", index |-> 2, value |-> 3]

\* C16 (wire round trip): unserialize_share(serialize_share(share)) is a
\* Share with the index and the value of share, for every index >= 0 and
\* value in [0, Q).
C16_WireRoundTrip ==
    alg.op = "wire" => alg.result = alg.left

C16_Witness ==
    /\ alg.op = "wire"
    /\ alg.left = [kind |-> "Share", index |-> 2, value |-> 10336]
    /\ alg.wire = "2|10336"
    /\ alg.result = [kind |-> "Share", index |-> 2, value |-> 10336]

----------------------------------------------------------------------------
(* Properties of execute_start                                             *)

\* the shares the generator handed to the caller of execute_start
HandedToStart == ttp_ret.result.value

\* C17 (index mismatch at execute_start): when the indices of x, y and of
\* the triplet shares the generator handed out for this party are not all
\* equal, execute_start raises: it publishes no blinded share and returns
\* no state.
C17_StartIndexMismatchFails ==
    (bv.started # None /\ Returned(ttp_ret.result)
        /\ ~(bv.x.index = bv.y.index
                /\ \A k \in 1..3 : HandedToStart[k].index = bv.x.index)) =>
        Raised(bv.started) /\ published_shares = <<>>

----------------------------------------------------------------------------
(* Properties of a party's receptions                                      *)

\* the 0-based position of a participant in the ProtocolSpec
PositionOf(id) == ListIndex(protocol_spec.participant_ids, id)

\* the index of the share in a message
WireIndex(payload) == deserialize_share(payload).index

\* a message a run of party p retrieves carries a share of another index
\* than expected: a secret share not of p's position, or a blinded share or
\* result share of participant j not of j's position
UnexpectedIndex(p) ==
    \/ \E j \in 1..Len(Walk) :
          /\ Walk[j].type = "SECRET"
          /\ <<p, secret_share_label(Walk[j].id)>> \in DOMAIN private_messages
          /\ WireIndex(private_messages[<<p, secret_share_label(Walk[j].id)>>])
                # PositionOf(p)
    \/ \E key \in DOMAIN public_messages :
          WireIndex(public_messages[key]) # PositionOf(key[1])

\* C18 (received index checked): a run that received a share whose index is
\* not the expected one (a secret share not of the party's own position, a
\* blinded or result share of participant j not of position j) fails; it
\* never returns a value computed from such a share.
C18_ReceivedIndexChecked ==
    \A p \in DOMAIN party :
        party[p].pc = "done" => ~UnexpectedIndex(p)

----------------------------------------------------------------------------
(* Properties of a party's failures and results                            *)

\* the positions in evaluation order of the nodes of no known class
UnknownAt ==
    { j \in 1..Len(Walk) :
        Walk[j].type \notin {"ADD", "SUB", "MUL", "SCALAR", "SECRET"} }

\* party p has published its result share
ResultPublished(p) ==
    <<p, result_share_label(p, "")>> \in DOMAIN public_messages

\* C19 (unknown node): process_expression raises at a node that is none of
\* AddOp, SubOp, MulOp, Scalar, Secret; the evaluation never gets past such
\* a node, so a run over a tree that contains one publishes no result share
\* and returns nothing.
C19_UnknownNodeFails ==
    UnknownAt # {} =>
        \A p \in DOMAIN party :
            /\ \A j \in UnknownAt : party[p].pos <= j
            /\ ~ResultPublished(p)
            /\ party[p].pc \notin {"recv_result", "done"}

C19_Witness ==
    /\ UnknownAt # {}
    /\ party["P0"].pc = "failed"
    /\ party["P0"].ret = Raise("RuntimeError: Unknown expression type")
    /\ party["P1"].pc = "failed"

\* the values of the result shares the N participants published, in
\* ProtocolSpec order
ResultValues ==
    [j \in 1..Len(protocol_spec.participant_ids) |->
        LET src_id == protocol_spec.participant_ids[j]
        IN  deserialize_share(
               public_messages[<<src_id, result_share_label(src_id, "")>>]).value]

\* C20 (no partial results): run() returns a value only once every one of
\* the N participants has published its result share, the value is the sum
\* of exactly those N shares modulo Q, and a run that failed returns no value.
C20_NoPartialResults ==
    \A p \in DOMAIN party :
        /\ Returned(party[p].ret) => party[p].pc = "done"
        /\ party[p].pc = "failed" => Raised(party[p].ret)
        /\ party[p].pc = "done" =>
              /\ \A q \in Range(protocol_spec.participant_ids) :
                    ResultPublished(q)
              /\ party[p].ret = Return(SumSeq(ResultValues) % default_q)

C20_Witness ==
    /\ Len(protocol_spec.participant_ids) = 3
    /\ \A p \in DOMAIN party : party[p].ret = Return(13)

----------------------------------------------------------------------------
(* Secrecy                                                                 *)

\* the values rand_Zq() can return
Zq == 0..(default_q - 1)

\* the values the rand_Zq() calls of share_secret(other, Len(shares)) must
\* return for its result to agree with shares at every index but missing:
\* the seen values at the seen indices, and at the unseen index what
\* balances other
HidingDraws(shares, other, missing) ==
    LET n == Len(shares)
        seen == SumSeq([j \in 1..n |->
                           IF j - 1 = missing THEN 0 ELSE shares[j].value])
    IN  [k \in 1..(n - 1) |->
            IF k = missing THEN (other - seen) % default_q
            ELSE shares[k + 1].value]

\* the shares of a secret, seen at all indices but one, are also shares of
\* the secret other
Hides(shares, other) ==
    \A missing \in 0..(Len(shares) - 1) :
        LET draws == HidingDraws(shares, other, missing)
            same == share_secret(other, draws)
        IN  /\ \A k \in 1..Len(draws) : draws[k] \in Zq
            /\ Len(same) = Len(shares)
            /\ \A j \in 1..Len(shares) :
                  j - 1 # missing => same[j] = shares[j]

\* C21 (secrecy of additive sharing): whatever share_secret(s, n) returned,
\* for every index left out there are draws of rand_Zq() with which
\* share_secret(s', n) returns the same shares at all other indices, for
\* every other secret s'; so the shares of a proper subset of the parties
\* are those of every secret.
C21_SharingHidesSecret ==
    alg.phase # "init" =>
        /\ \A other \in SecretVals : Hides(alg.shares1, other)
        /\ \A other \in SecretVals : Hides(alg.shares2, other)

C21_Witness ==
    /\ alg.phase = "shared"
    /\ alg.N = 3
    /\ alg.s1 # alg.s2
    /\ alg.shares1[2].value = 10336
    /\ Hides(alg.shares1, alg.s2)

\* shares that keep the values of shares at every index but spare, where
\* the value is what makes them sum to secret
Rebalanced(shares, secret, spare) ==
    LET kept == SumSeq([j \in 1..Len(shares) |->
                           IF j = spare THEN 0 ELSE shares[j].value])
    IN  [j \in 1..Len(shares) |->
            IF j = spare THEN (secret - kept) % default_q
            ELSE shares[j].value]

\* the draws of rand_Zq() with which share_secret returns the given values
DrawsOf(values) == Tail(values)

\* the values the operands of the multiplication may as well have
OtherOperands == { ZqSample[j] : j \in 1..NumBeaverSecrets }

\* every party of the Beaver test has run execute_start, none execute_end
AllStarted ==
    /\ bv.phase = "run"
    /\ \A j \in 1..bv.N : Returned(bv.beaver_states[j])
    /\ \A j \in 1..bv.N : bv.result[j] = None

\* with the view of party me (its shares of x and y and of the triplet) and
\* all published blinded shares as they are, the multiplied values may as
\* well be x2 and y2: there are shares of x2 and y2 and a triplet, all of
\* them possible results of share_secret and of the generator, with which
\* every party's execute_start publishes the very same blinded shares
ConsistentWith(me, x2, y2) ==
    LET n == bv.N
        spare == IF me = 1 THEN 2 ELSE 1
        old == generated_shares[TestOpId]
        Xs == published_shares[TestXLabel]
        Ys == published_shares[TestYLabel]
        xv == Rebalanced(bv.shares1, x2, spare)
        yv == Rebalanced(bv.shares2, y2, spare)
        av == [j \in 1..n |-> (xv[j] - Xs[j].value) % default_q]
        bw == [j \in 1..n |-> (yv[j] - Ys[j].value) % default_q]
        s_a == SumSeq(av) % default_q
        s_b == SumSeq(bw) % default_q
        cv == Rebalanced(old[3], (s_a * s_b) % default_q, spare)
        xs == share_secret(x2, DrawsOf(xv))
        ys == share_secret(y2, DrawsOf(yv))
        new == new_triplet(s_a, s_b, DrawsOf(av), DrawsOf(bw), DrawsOf(cv))
    IN  /\ xs[me] = bv.shares1[me] /\ ys[me] = bv.shares2[me]
        /\ \A k \in 1..3 : new[k][me] = old[k][me]
        /\ \A j \in 1..n :
              LET started == execute_start(xs[j], ys[j],
                                <<new[1][j].value, new[2][j].value,
                                  new[3][j].value>>)
              IN  /\ Returned(started)
                  /\ started.value.X_share = Xs[j]
                  /\ started.value.Y_share = Ys[j]

\* C22 (Beaver hides the operands): once all parties have published their
\* blinded shares, for every party i and every pair (x', y') there are a
\* sharing of x' and y' and a triplet that leave i's own shares as they are
\* and make every party publish the same X and Y shares; the public
\* messages of a multiplication are those of every (x', y').
C22_BeaverHidesOperands ==
    AllStarted =>
        \A me \in 1..bv.N :
            \A x2 \in OtherOperands, y2 \in OtherOperands :
                ConsistentWith(me, x2, y2)

C22_Witness ==
    /\ AllStarted
    /\ bv.N = 3
    /\ bv.s1 # bv.s2
    /\ ConsistentWith(2, bv.s2, bv.s1)

----------------------------------------------------------------------------
(* Identifiers and rendering of expressions                                *)

\* C23 (fresh ids): a node constructed with no id argument has an id that
\* differs from the id of every other node built so far.
C23_FreshIdsDistinct ==
    \A k \in 1..Len(alg.built) :
        alg.given[k] = None =>
            \A j \in 1..Len(alg.built) :
                j # k => alg.built[j].id # alg.built[k].id

\* a node constructed with an id argument has exactly that id
C23_ExplicitIdKept ==
    \A k \in 1..Len(alg.built) :
        alg.given[k] # None => alg.built[k].id = alg.given[k].value

\* the id of a node that has been built never changes
C23_IdNeverChanges ==
    [][\A k \in 1..Len(alg.built) : alg.built'[k].id = alg.built[k].id]_vars

\* the tree without its ids
RECURSIVE Structure(_)
Structure(expr) ==
    IF expr.type \in {"ADD", "SUB", "MUL"}
        THEN [type |-> expr.type, left |-> Structure(expr.left),
              right |-> Structure(expr.right)]
        ELSE [expr EXCEPT !.id = ""]

\* the rendering with a pair of parentheses around a child exactly when
\* its level (Add/Sub 1, Mul 2, leaf 3) is strictly below its parent's
RECURSIVE Rendering(_)
Rendering(tree) ==
    LET Level(e) == CASE e.type \in {"ADD", "SUB"} -> 1
                      [] e.type = "MUL" -> 2
                      [] OTHER -> 3
        Sign == [ADD |-> " + ", SUB |-> " - ", MUL |-> " * "]
        Child(c) == IF Level(c) < Level(tree)
                       THEN "(" \o Rendering(c) \o ")"
                       ELSE Rendering(c)
    IN  CASE tree.type \in {"ADD", "SUB", "MUL"} ->
                Child(tree.left) \o Sign[tree.type] \o Child(tree.right)
          [] tree.type = "SCALAR" -> "Scalar(" \o ToString(tree.value) \o ")"
          [] OTHER -> IF "value" \in DOMAIN tree
                         THEN "Secret(" \o ToString(tree.value) \o ")"
                         ELSE "Secret()"

\* a * (b + c * Scalar(4)) of test_expr_construction, with generated ids
TestTree ==
    LET id(k) == gen_id(<<k, 2 * k, 255 - k, 7>>)
    IN  MulOp(Secret_value(1, id(1)),
              AddOp(Secret_value(2, id(2)),
                    MulOp(Secret_value(3, id(3)), Scalar(4, id(4)), id(5)),
                    id(6)),
              id(7))

\* C26 (rendering): the text of a node is determined by its structure and
\* leaf values, whatever the ids; a binary node reads left, operator, right
\* with parentheses around a child exactly when the child's precedence is
\* strictly lower than the parent's; a * (b + c * Scalar(4)) reads
\* "Secret(1) * (Secret(2) + Secret(3) * Scalar(4))".
C26_Rendering ==
    /\ \A k \in 1..Len(alg.built) :
          /\ repr(alg.built[k]) = Rendering(alg.built[k])
          /\ \A j \in 1..Len(alg.built) :
                Structure(alg.built[j]) = Structure(alg.built[k])
                    => repr(alg.built[j]) = repr(alg.built[k])
    /\ repr(TestTree) = "Secret(1) * (Secret(2) + Secret(3) * Scalar(4))"

C26_Witness ==
    /\ Len(alg.built) = 3
    /\ alg.built[3].id # "bm9kZQ=="
    /\ repr(alg.built[3]) = "(Secret(1) - Secret(1)) * Secret(1)"

----------------------------------------------------------------------------
(* Runs in which a participant aborts                                      *)

Aborted(p) == p \in DOMAIN party /\ party[p].pc = "aborted"

\* q is in a retrieval whose message is not there
Waiting(q) ==
    LET k == party[q].k
        src_id == protocol_spec.participant_ids[k + 1]
    IN  \/ /\ party[q].pc = "evaluate"
           /\ party[q].pos <= Len(Walk)
           /\ AtNode(q).type = "SECRET"
           /\ ~message_there(private_messages, q,
                             secret_share_label(AtNode(q).id))
        \/ /\ party[q].pc = "recv_X"
           /\ ~message_there(public_messages, src_id,
                 result_share_label(src_id, X_label(AtNode(q).id)))
        \/ /\ party[q].pc = "recv_Y"
           /\ ~message_there(public_messages, src_id,
                 result_share_label(src_id, Y_label(AtNode(q).id)))
        \/ /\ party[q].pc = "recv_result"
           /\ ~message_there(public_messages, src_id,
                             result_share_label(src_id, ""))

OneAborted == \E p \in PartyIds : Aborted(p)

OthersWaiting ==
    \A p \in DOMAIN party :
        Aborted(p) => \A q \in DOMAIN party \ {p} : Waiting(q)

\* no participant returns a value in a run with an aborted participant
NoOtherReturns ==
    OneAborted =>
        \A q \in DOMAIN party : party[q].pc # "done" /\ party[q].ret = None

----------------------------------------------------------------------------
(* Labels of the messages of a run                                         *)

\* the ids of the secrets of the protocol's expression
SecretIds ==
    { Walk[j].id : j \in { i \in 1..Len(Walk) : Walk[i].type = "SECRET" } }

\* what a party publishes in a run: its result share and, for every
\* multiplication, its blinded X and Y shares
Published ==
    LET participants == Range(protocol_spec.participant_ids)
    IN  ({"result"} \X participants \X {""})
            \cup ({"X", "Y"} \X participants \X MulIds(protocol_spec.expr))

\* the label the code publishes and retrieves it under
LabelInCode(msg) ==
    CASE msg[1] = "result" -> result_share_label(msg[2], "")
      [] msg[1] = "X" -> result_share_label(msg[2], X_label(msg[3]))
      [] msg[1] = "Y" -> result_share_label(msg[2], Y_label(msg[3]))

\* the label made of the participant id and, for X and Y, the node id
LabelAsStated(msg) ==
    IF msg[1] = "result" THEN "result-share-" \o msg[2]
    ELSE "result-share-" \o msg[2] \o "-" \o msg[1] \o "-" \o msg[3]

LabelsAsStated ==
    LET as_stated(labels) ==
            /\ DOMAIN public_messages \subseteq labels[1]
            /\ \A key \in DOMAIN private_messages : key[2] \in labels[2]
    IN  Once(as_stated,
             <<{ <<msg[2], LabelAsStated(msg)>> : msg \in Published },
               { "secret-share-" \o ToString(int_from_bytes(id, 0)) :
                    id \in SecretIds }>>)

LabelsDistinct ==
    /\ \A m1 \in Published, m2 \in Published :
          m1 # m2 => LabelInCode(m1) # LabelInCode(m2)
    /\ \A s1 \in SecretIds, s2 \in SecretIds :
          s1 # s2 => secret_share_label(s1) # secret_share_label(s2)

\* a published message is never replaced by another payload
NoOverwrite ==
    \A key \in DOMAIN public_messages :
        /\ key \in DOMAIN public_messages'
        /\ public_messages'[key] = public_messages[key]

----------------------------------------------------------------------------
(* Multiplication nodes of a run                                           *)

\* whether a node evaluates to a Share: a secret does, a scalar does not,
\* an operation does as soon as one operand does
RECURSIVE GivesShare(_)
GivesShare(expr) ==
    CASE expr.type = "SECRET" -> TRUE
      [] expr.type = "SCALAR" -> FALSE
      [] expr.type \in {"ADD", "SUB", "MUL"} ->
            GivesShare(expr.left) \/ GivesShare(expr.right)
      [] OTHER -> FALSE

\* the positions of the Mul nodes in the evaluation order
MulNodes == { j \in 1..Len(Walk) : Walk[j].type = "MUL" }

BothShares(j) == GivesShare(Walk[j].left) /\ GivesShare(Walk[j].right)

\* party p has gone into the multiplication of node j
Entered(p, j) ==
    \/ party[p].pos > j
    \/ party[p].pos = j /\ party[p].pc \in {"recv_X", "recv_Y"}

\* where party p's blinded shares of operation id are published
BlindedKeys(p, id) ==
    { <<p, "result-share-" \o p \o "-X-" \o id>>,
      <<p, "result-share-" \o p \o "-Y-" \o id>> }

MulDispatched ==
    \A p \in DOMAIN party, j \in MulNodes :
        LET id == Walk[j].id
        IN  IF BothShares(j) /\ Entered(p, j)
               THEN /\ handed[<<p, id>>] # None
                    /\ BlindedKeys(p, id) \subseteq DOMAIN public_messages
               ELSE /\ handed[<<p, id>>] = None
                    /\ BlindedKeys(p, id) \cap DOMAIN public_messages = {}
                    /\ BothShares(j) /\ party[p].pos = j =>
                          party[p].pc \in {"evaluate", "triplet"}
                    /\ ~BothShares(j) /\ party[p].pos = j =>
                          party[p].pc \notin {"triplet", "recv_X", "recv_Y"}

\* a triplet is retrieved by a party at a Mul node of two shares, under the
\* node's id, and for the first time
RetrievalAsStated ==
    ttp_ret' # ttp_ret =>
        LET p == ttp_ret'.client
        IN  /\ p \in DOMAIN party
            /\ party[p].pos \in MulNodes
            /\ BothShares(party[p].pos)
            /\ ttp_ret'.op = Walk[party[p].pos].id
            /\ ~ttp_ret'.again
            /\ Returned(ttp_ret'.result)

\* C27 (Mul dispatch): a Mul node with a scalar operand is computed with no
\* triplet retrieval, no publication and no wait; a Mul node of two shares
\* runs the Beaver protocol under the node's id, so every party retrieves
\* exactly one triplet for it, all under the same operation id.
C27_MulDispatch ==
    /\ []MulDispatched
    /\ [][RetrievalAsStated]_vars

C27_Witness ==
    /\ protocol_spec = ProtocolProduct
    /\ \A p \in DOMAIN party :
          party[p].pc = "done" /\ handed[<<p, "m1">>] # None
    /\ generations["m1"] = 1

----------------------------------------------------------------------------
(* The phases of a party's run                                             *)

\* every share of every secret of party p is in the participants' boxes
SentAll(p) ==
    \A j \in 1..Len(protocol_spec.value_dict[p]),
       q \in Range(protocol_spec.participant_ids) :
        message_there(private_messages, q,
                      secret_share_label(protocol_spec.value_dict[p][j][1]))

\* party p has retrieved nothing and published nothing
NothingRetrieved(p) ==
    /\ party[p].pos = 1 /\ party[p].stack = <<>> /\ party[p].acc = <<>>
    /\ \A key \in DOMAIN public_messages : key[1] # p
    /\ \A key \in DOMAIN handed : key[1] = p => handed[key] = None

OwnResultPublished(p) ==
    message_there(public_messages, p, "result-share-" \o p)

\* party p stands in a retrieval: of a secret share, of the blinded shares
\* or of the result shares
AtRetrieval(p) ==
    \/ /\ party[p].pc = "evaluate"
       /\ party[p].pos <= Len(Walk)
       /\ AtNode(p).type = "SECRET"
    \/ party[p].pc \in {"recv_X", "recv_Y", "recv_result"}

Ended(p) == party[p].pc \in {"done", "failed"}

PhaseOf(p) ==
    CASE party[p].pc = "distribute" -> 0
      [] party[p].pc \in {"evaluate", "triplet", "recv_X", "recv_Y"} -> 1
      [] party[p].pc = "recv_result" -> 2
      [] OTHER -> 3

PhasesInOrder ==
    \A p \in DOMAIN party :
        /\ party[p].pc = "distribute" => NothingRetrieved(p)
        /\ party[p].pc # "distribute" => SentAll(p)
        /\ OwnResultPublished(p) <=>
              /\ party[p].pc \in {"recv_result", "done"}
              /\ party[p].pos > Len(Walk)
        /\ party[p].pc = "recv_result" /\ party[p].k = 0 =>
              party[p].acc = <<>>
        /\ ~Ended(p) /\ ~AtRetrieval(p) => ENABLED Run(p)

\* a private message is sent only by a party that is distributing, and a
\* party never goes back to an earlier phase
PhaseSteps ==
    /\ private_messages' # private_messages =>
          \E p \in DOMAIN party :
              party[p].pc = "distribute" /\ party'[p] # party[p]
    /\ \A p \in DOMAIN party :
          party[p].pc \notin {"done", "failed"} =>
             LET before == PhaseOf(p)
                 after == CASE party'[p].pc = "distribute" -> 0
                            [] party'[p].pc \in {"evaluate", "triplet",
                                                 "recv_X", "recv_Y"} -> 1
                            [] party'[p].pc = "recv_result" -> 2
                            [] OTHER -> 3
             IN  after >= before

\* C28 (phase ordering): a party sends the shares of all its secrets before
\* it retrieves anything, publishes its result share only once the whole
\* expression is evaluated, retrieves result shares only after that, and
\* can be stopped only in a retrieval, never in a send or a publication.
C28_PhaseOrdering ==
    /\ []PhasesInOrder
    /\ [][PhaseSteps]_vars

C28_Witness ==
    /\ protocol_spec = ProtocolProduct
    /\ party["P0"].pc = "recv_result" /\ party["P0"].k = 1
    /\ ~ENABLED Run("P0")
    /\ party["P1"].pc = "recv_Y"

----------------------------------------------------------------------------
(* The distribution of a party's secrets                                   *)

\* how many of its secrets party p has distributed
Distributed(p) ==
    IF party[p].pc = "distribute" THEN party[p].k
    ELSE Len(protocol_spec.value_dict[p])

\* the label of the shares of a secret, as stated
SecretLabel(secret_id) ==
    "secret-share-" \o ToString(int_from_bytes(secret_id, 0))

\* the share participant number i (from 1) holds of a secret
HeldShare(i, secret_id) ==
    deserialize_share(
        private_messages[<<protocol_spec.participant_ids[i],
                           SecretLabel(secret_id)>>])

\* the shares participants 1..i hold of a secret
RECURSIVE HeldShares(_, _)
HeldShares(i, secret_id) ==
    IF i = 0 THEN <<>>
    ELSE Append(HeldShares(i - 1, secret_id), HeldShare(i, secret_id))

RECURSIVE SumOfValues(_)
SumOfValues(shares) ==
    IF shares = <<>> THEN 0
    ELSE Head(shares).value + SumOfValues(Tail(shares))

\* the private messages there must be: one per participant and
\* distributed secret
DistributedKeys ==
    UNION { { <<q, SecretLabel(protocol_spec.value_dict[p][j][1])>> :
                q \in DOMAIN party, j \in 1..Distributed(p) } :
            p \in DOMAIN party }

SecretsDistributed ==
    /\ DOMAIN private_messages = DistributedKeys
    /\ \A p \in DOMAIN party : \A j \in 1..Distributed(p) :
          LET secret_id == protocol_spec.value_dict[p][j][1]
              value == protocol_spec.value_dict[p][j][2]
              N == Len(protocol_spec.participant_ids)
              as_stated(held) ==
                  /\ \A i \in 1..N : /\ IsShare(held[i])
                                      /\ held[i].index = i - 1
                  /\ SumOfValues(held) % default_q = value % default_q
          IN  Once(as_stated, HeldShares(N, secret_id))

\* distributing one secret adds one message per participant and changes
\* no message that is there
OneMessageEach ==
    private_messages' # private_messages =>
        /\ Cardinality(DOMAIN private_messages') =
              Cardinality(DOMAIN private_messages)
                 + Len(protocol_spec.participant_ids)
        /\ \A key \in DOMAIN private_messages :
              private_messages'[key] = private_messages[key]

\* a step that distributes: the messages or the count of distributed
\* secrets change
Distributes ==
    \/ private_messages' # private_messages
    \/ \E p \in DOMAIN party : Distributed(p)' # Distributed(p)

\* C29 (distribute): for every secret it owns a party makes N shares and
\* sends exactly one private message to each participant under the label
\* of the secret's id; the participant at position i receives the share of
\* index i, and the N shares sum to the value mod Q. (Stated of the first
\* state and of the state after every step that distributes, hence of
\* every state.)
C29_Distribute ==
    /\ SecretsDistributed
    /\ [][Distributes => SecretsDistributed']_vars
    /\ [][OneMessageEach]_vars

C29_Witness ==
    /\ protocol_spec = ProtocolAddScaled
    /\ \A p \in DOMAIN party : party[p].pc # "distribute"
    /\ Cardinality(DOMAIN private_messages) = 6
    /\ HeldShare(2, "sA").value # 0 /\ HeldShare(3, "sB").value # 0

----------------------------------------------------------------------------
(* The two phases of a Beaver multiplication in a run                      *)

\* party p is between execute_start and the end of execute_end
InBeaver(p) == party[p].pc \in {"recv_X", "recv_Y"}

\* what party p has published under the X (or Y) label of operation id
Blinded(p, which, id) ==
    deserialize_share(
        public_messages[<<p, "result-share-" \o p \o "-" \o which
                                \o "-" \o id>>])

\* share s is the difference of the shares x and a
IsDifference(s, x, a) ==
    /\ IsShare(s)
    /\ s.index = x.index
    /\ s.value = (x.value - a.value) % default_q

StartedAsStated ==
    \A p \in DOMAIN party :
        InBeaver(p) =>
            LET id == AtNode(p).id
                triplet == handed[<<p, id>>].value
                state == party[p].state
            IN  /\ BlindedKeys(p, id) \subseteq DOMAIN public_messages
                /\ Cardinality(BlindedKeys(p, id)) = 2
                /\ IsDifference(Blinded(p, "X", id), left_share(p), triplet[1])
                /\ IsDifference(Blinded(p, "Y", id), right_share(p), triplet[2])
                /\ state[1].value = triplet[3].value
                /\ state[2] = left_share(p)
                /\ state[3] = right_share(p)

\* execute_start publishes both blinded shares in one go, before anything
\* is retrieved; execute_end returns only when every participant has
\* published both of its blinded shares
TwoPhaseSteps ==
    \A p \in DOMAIN party :
        /\ party[p].pc = "recv_Y" /\ party'[p].pc = "evaluate" =>
              \A q \in Range(protocol_spec.participant_ids) :
                  BlindedKeys(q, AtNode(p).id) \subseteq DOMAIN public_messages
        /\ ~InBeaver(p) /\ party'[p].pc \in {"recv_X", "recv_Y"} =>
              /\ party'[p].pc = "recv_X"
              /\ party'[p].k = 0 /\ party'[p].acc = <<>>
              /\ BlindedKeys(p, AtNode(p).id) \cap DOMAIN public_messages = {}
              /\ BlindedKeys(p, AtNode(p).id) \subseteq DOMAIN public_messages'
        /\ InBeaver(p) /\ ~InBeaver(p)' =>
              party[p].pc = "recv_Y" \/ party'[p].pc = "failed"

\* C30 (Beaver two-phase ordering): execute_start publishes X_i = x_i - a_i
\* and Y_i = y_i - b_i under two different labels before it retrieves
\* anything and keeps (c, x, y) with x and y as given; no party's
\* execute_end returns before every participant has published both its X
\* and its Y share of the operation.
C30_TwoPhases ==
    /\ []StartedAsStated
    /\ [][TwoPhaseSteps]_vars

C30_Witness ==
    /\ protocol_spec = ProtocolProduct
    /\ party["P0"].pc = "recv_X" /\ party["P0"].k = 1
    /\ BlindedKeys("P1", "m1") \cap DOMAIN public_messages = {}
    /\ ~ENABLED Run("P0")
    /\ Blinded("P0", "X", "m1") # left_share("P0")

----------------------------------------------------------------------------
(* The share a Beaver multiplication returns                               *)

\* the sum of what all participants published under the X (or Y) label of
\* operation id, among the first n participants
RECURSIVE PublicValue(_, _, _)
PublicValue(which, id, n) ==
    IF n = 0 THEN 0
    ELSE (Blinded(protocol_spec.participant_ids[n], which, id).value
             + PublicValue(which, id, n - 1)) % default_q

\* party p has just returned from the Mul node at position j, whose
\* operands are two secrets
JustMultiplied(p, j) ==
    /\ BothShares(j)
    /\ Walk[j].left.type = "SECRET" /\ Walk[j].right.type = "SECRET"
    /\ party[p].pc = "evaluate" /\ party[p].pos = j + 1
    /\ party[p].stack # <<>>

ProductShareAsStated ==
    \A p \in DOMAIN party, j \in MulNodes :
        JustMultiplied(p, j) =>
            LET id == Walk[j].id
                N == Len(protocol_spec.participant_ids)
                i == PositionOf(p)
                c == handed[<<p, id>>].value[3].value
                x == HeldShare(i + 1, Walk[j].left.id).value
                y == HeldShare(i + 1, Walk[j].right.id).value
                X_pub == PublicValue("X", id, N)
                Y_pub == PublicValue("Y", id, N)
                z == party[p].stack[Len(party[p].stack)]
            IN  /\ IsShare(z)
                /\ z.index = i
                /\ z.value =
                      IF i # 0 THEN (c + x * Y_pub + y * X_pub) % default_q
                      ELSE (c + x * Y_pub + y * X_pub - X_pub * Y_pub)
                              % default_q

\* C31 (execute_end): with X_pub and Y_pub the sums mod Q of all parties' X
\* and Y shares, the party at index i is returned the share of index i and
\* value c_i + x_i * Y_pub + y_i * X_pub mod Q, less X_pub * Y_pub at index
\* 0 only.
C31_ProductShare == ProductShareAsStated

C31_Witness ==
    /\ protocol_spec = ProtocolProduct
    /\ JustMultiplied("P0", 3) /\ JustMultiplied("P1", 3)
    /\ PublicValue("X", "m1", 2) * PublicValue("Y", "m1", 2) % default_q # 0
    /\ PublicValue("X", "m1", 2) # PublicValue("Y", "m1", 2)

----------------------------------------------------------------------------
(* The generator and the registration order                                *)

\* the position of a client in the registration order, counting from 0
Position(client_id) == ListIndex(participant_ids, client_id)

Registered == { c \in ClientIds : InList(c, participant_ids) }

\* C32 (share at the client's position): retrieve_share returns, of each of
\* a, b and c, the share kept at the position of client_id in the
\* registration order; each of the three has that position as index, and
\* two different registered clients never have the same position.
C32_ShareAtPosition ==
    /\ Returned(ttp_ret.result) =>
          LET pos == Position(ttp_ret.client)
              cache == generated_shares[ttp_ret.op]
          IN  \A k \in 1..3 :
                 /\ ttp_ret.result.value[k] = cache[k][pos + 1]
                 /\ ttp_ret.result.value[k].index = pos
    /\ \A c1 \in Registered, c2 \in Registered :
          c1 # c2 => Position(c1) # Position(c2)

C32_Witness ==
    /\ participant_ids = <<"P0", "P1">>
    /\ ttp_ret.client = "P1"
    /\ Returned(ttp_ret.result)
    /\ ttp_ret.result.value[3].index = 1

----------------------------------------------------------------------------
(* Termination of the runs                                                 *)

\* every secret of the expression is owned by exactly one participant
OneOwnerEach ==
    \A id \in SecretIds :
        Cardinality(UNION {
            { <<p, j>> : j \in { i \in 1..Len(protocol_spec.value_dict[p]) :
                                    protocol_spec.value_dict[p][i][1] = id } } :
            p \in DOMAIN party }) = 1

\* some party that has not returned can take a step
CanGoOn == \E p \in DOMAIN party : party[p].pc # "done" /\ ENABLED Run(p)

\* C33 (deadlock freedom and termination): when all participants run the
\* same tree with the same participant list, every secret has one owner,
\* the tree raises no error and messages stay retrievable, then as long as
\* a party has not returned some party can take a step, and under fair
\* scheduling every party's run() returns.
C33_Termination ==
    /\ OneOwnerEach
    /\ [](AllDone \/ CanGoOn)
    /\ <>AllDone

C33_Witness ==
    /\ protocol_spec = ProtocolAddScaled
    /\ AllDone
    /\ \A p \in DOMAIN party : party[p].ret = Return(13)

----------------------------------------------------------------------------
(* The index of a party's shares                                           *)

\* the index of the share in a stored message
IndexIn(messages, key) == deserialize_share(messages[key]).index

\* every secret share party p has been sent has p's position as index
ReceivedOwnIndex(p) ==
    \A key \in DOMAIN private_messages :
        key[1] = p => IndexIn(private_messages, key) = PositionOf(p)

\* every share party p holds or has published has p's position as index
OwnIndexKept(p) ==
    LET i == PositionOf(p)
        mine(e) == IsShare(e) => e.index = i
    IN  /\ \A n \in 1..Len(party[p].stack) : mine(party[p].stack[n])
        /\ party[p].state # None =>
              \A n \in 1..3 : mine(party[p].state[n])
        /\ \A key \in DOMAIN public_messages :
              key[1] = p => IndexIn(public_messages, key) = i

\* C34 (index invariant): if every secret share the party at position i
\* receives has index i, every share it computes at a node (Add, Sub,
\* scalar Mul, Beaver Mul) and the result share it publishes have index i.
C34_IndexInvariant ==
    \A p \in DOMAIN party : ReceivedOwnIndex(p) => OwnIndexKept(p)

C34_Witness ==
    /\ protocol_spec = ProtocolAddScaled
    /\ party["P2"].pc = "recv_result"
    /\ ReceivedOwnIndex("P2")
    /\ IndexIn(public_messages, <<"P2", "result-share-P2">>) = 2

----------------------------------------------------------------------------
(* Expressions that do not evaluate to a share                             *)

AllFailed == \A p \in DOMAIN party : party[p].pc = "failed"

\* C35 (scalar root): for an expression with no Secret leaf, such as
\* Scalar(2) + Scalar(3), every party's run() goes through distribution
\* and evaluation without waiting and then fails, before any result share
\* is published; no party returns a value.
C35_ScalarRootFails ==
    protocol_spec = ProtocolScalars =>
        /\ public_messages = <<>>
        /\ \A p \in DOMAIN party :
              /\ party[p].pc \in {"distribute", "evaluate", "failed"}
              /\ party[p].pc = "failed" =>
                    /\ party[p].ret = Raise("AssertionError")
                    /\ party[p].pos > Len(Walk)
                    /\ SentAll(p)
              /\ party[p].pc # "failed" =>
                    party[p].ret = None /\ ENABLED Run(p)

C35_Witness ==
    /\ protocol_spec = ProtocolScalars
    /\ AllFailed
    /\ Cardinality(DOMAIN private_messages) = 2

\* C36 (scalar minus share): for an expression with a Sub node of a scalar
\* left operand and a share right operand, such as Scalar(5) - A, every
\* party's run() fails during evaluation, at that node; no party publishes
\* a result share and no party returns a value.
C36_ScalarMinusShareFails ==
    protocol_spec = ProtocolScalarMinus =>
        /\ public_messages = <<>>
        /\ \A p \in DOMAIN party :
              /\ party[p].pc \in {"distribute", "evaluate", "failed"}
              /\ party[p].pc = "failed" =>
                    /\ party[p].ret =
                          Raise("RuntimeError: Implicit scalar - share not defined!")
                    /\ AtNode(p).id = "d1"
              /\ party[p].pc # "failed" => party[p].ret = None
        /\ AllFailed \/ \E p \in DOMAIN party :
                            party[p].pc # "failed" /\ ENABLED Run(p)

C36_Witness ==
    /\ protocol_spec = ProtocolScalarMinus
    /\ AllFailed
    /\ \A p \in DOMAIN party : party[p].pos = 3

----------------------------------------------------------------------------
(* Registrations after the first retrieval, and repeated registrations     *)

\* the number of shares cached for each of a, b, c of an operation
CachedLen(cache, op_id) == Len(cache[op_id][1])

\* the vectors of a new cache entry are as long as the participant list
CachedAtFirstRetrieval ==
    \A o \in DOMAIN generated_shares' \ DOMAIN generated_shares :
        \A k \in 1..3 : Len(generated_shares'[o][k]) = Len(participant_ids)

\* a call for a cached operation by a client whose position is beyond the
\* cached vectors fails and hands nothing out
LateClientFails ==
    (/\ ttp_ret' # ttp_ret
     /\ InList(ttp_ret'.client, participant_ids)
     /\ ttp_ret'.op \in DOMAIN generated_shares
     /\ Position(ttp_ret'.client) >= CachedLen(generated_shares, ttp_ret'.op))
        => Raised(ttp_ret'.result) /\ handed' = handed

RegistrationKeepsCache ==
    participant_ids' # participant_ids => generated_shares' = generated_shares

\* no client registered beyond the cached vectors was ever handed a share
NoShareForLateClient ==
    \A c \in Registered, o \in DOMAIN generated_shares :
        Position(c) >= CachedLen(generated_shares, o) =>
            handed[<<c, o>>] = None

\* C37 (late registration): the vectors cached for an op_id are as long as
\* the participant list at the first retrieve_share for it; a participant
\* registered after that can never obtain a share for that op_id, its
\* retrieve_share fails, and its registration leaves the cached vectors as
\* they are.
C37_LateRegistration ==
    /\ []NoShareForLateClient
    /\ [][CachedAtFirstRetrieval /\ LateClientFails
            /\ RegistrationKeepsCache]_vars

C37_Witness ==
    /\ participant_ids = <<"P0", "P1">>
    /\ "op1" \in DOMAIN generated_shares
    /\ CachedLen(generated_shares, "op1") = 1
    /\ ttp_ret.client = "P1" /\ ttp_ret.op = "op1"
    /\ ttp_ret.result = Raise("IndexError")

\* add_participant(c) can be called and makes the list longer
Accepted(c) ==
    ENABLED (/\ add_participant(c)
             /\ Len(participant_ids') = Len(participant_ids) + 1
             /\ UNCHANGED <<algVars, bvVars, partyVars>>)

\* the positions of the vectors of operation o no registered client has
Unreachable(o) ==
    { pos \in 0..(CachedLen(generated_shares, o) - 1) :
         \A c \in Registered : Position(c) # pos }

\* operation o was cached when the participant list was what it is now
CachedForAll(o) ==
    /\ o \in DOMAIN generated_shares
    /\ CachedLen(generated_shares, o) = Len(participant_ids)

\* C38 (repeated registration): add_participant accepts an id that is
\* registered already; retrieve_share then maps the id to the position of
\* its first registration, and every share vector generated afterwards has
\* a position that no client can retrieve. (That the shares the clients
\* can obtain then need not be shares of a triplet with c = a * b mod Q is
\* the state of C38_Witness.)
C38_RepeatedRegistration ==
    /\ \A c \in ClientIds : Accepted(c)
    /\ \A c \in Registered :
          /\ participant_ids[Position(c) + 1] = c
          /\ \A n \in 1..Position(c) : participant_ids[n] # c
          /\ \A o \in DOMAIN generated_shares :
                handed[<<c, o>>] # None =>
                   \A k \in 1..3 : handed[<<c, o>>].value[k].index = Position(c)
    /\ \A o \in OpIds :
          ~Distinct(participant_ids) /\ CachedForAll(o) =>
              /\ Unreachable(o) # {}
              /\ \A c \in ClientIds : handed[<<c, o>>] # None =>
                     handed[<<c, o>>].value[1].index \notin Unreachable(o)

C38_Witness ==
    /\ participant_ids = <<"P0", "P0">>
    /\ CachedForAll("op1")
    /\ Unreachable("op1") = {1}
    /\ handed[<<"P0", "op1">>] # None
    /\ LET got == handed[<<"P0", "op1">>].value
       IN  (got[1].value * got[2].value) % default_q # got[3].value

----------------------------------------------------------------------------
(* Beaver multiplication and the generator's registration order            *)

\* the generator's order is not the ProtocolSpec's
Permuted == participant_ids # protocol_spec.participant_ids

\* party p's triplet shares carry p's position in the ProtocolSpec, with
\* the values the generator handed out from p's position in its own order
Retagged(p) ==
    LET got == handed[<<p, AtNode(p).id>>].value
    IN  /\ \A k \in 1..3 : got[k].index = Position(p)
        /\ party[p].state[1] = Share(PositionOf(p), got[3].value)

====
